---------------------------- MODULE Spec2Model ----------------------------
(***************************************************************************)
(* PDFusion: the PdfFusion component (merge, restructure and               *)
(* merge-and-restructure of PDF files) and the GridSelector that feeds it. *)
(*                                                                         *)
(* The PDF library is a black box: a document is its sequence of pages, a  *)
(* page is its identity and its intrinsic size, loading a file either      *)
(* yields the document or throws an error with a message.                  *)
(*                                                                         *)
(* Numbers: the layout arithmetic of the component divides, so its values  *)
(* are modelled as exact rationals [num, den] in lowest terms.  The        *)
(* component evaluates the same expressions in IEEE-754 doubles; rounding  *)
(* of the last bit is not part of this model.                              *)
(***************************************************************************)
EXTENDS Integers, Sequences, FiniteSets, TLC

(***************************************************************************)
(* Bounds of the model.                                                    *)
(***************************************************************************)
\* longest page sequence handed to the tiling loop in SpecTile
MaxPages == 5
\* files selected in one behaviour (each selection draws a fresh id)
MaxIds == 3
\* files handed over by one change event of a file input
MaxPick == 2
\* clicks on the three operation buttons in one behaviour
MaxRuns == 2

(***************************************************************************)
(* Exact rational arithmetic.                                              *)
(***************************************************************************)
Abs(n) == IF n < 0 THEN -n ELSE n

RECURSIVE GCD(_, _)
GCD(a, b) == IF b = 0 THEN a ELSE GCD(b, a % b)

\* the rational n/d (d # 0) in lowest terms with a positive denominator
Rat(n, d) ==
    LET g == GCD(Abs(n), Abs(d))
        s == IF d < 0 THEN -1 ELSE 1
    IN  [num |-> (s * n) \div g, den |-> (s * d) \div g]

R(n) == [num |-> n, den |-> 1]
RAdd(a, b) == Rat(a.num * b.den + b.num * a.den, a.den * b.den)
RSub(a, b) == Rat(a.num * b.den - b.num * a.den, a.den * b.den)
RMul(a, b) == Rat(a.num * b.num, a.den * b.den)
RDiv(a, b) == Rat(a.num * b.den, a.den * b.num)
RLe(a, b) == a.num * b.den <= b.num * a.den
RLt(a, b) == a.num * b.den < b.num * a.den
\* Math.min
RMin(a, b) == IF RLe(a, b) THEN a ELSE b
Min2(a, b) == IF a <= b THEN a ELSE b

(***************************************************************************)
(* Program constants.                                                      *)
(***************************************************************************)
\* GridSelector is mounted with maxRows={8} maxCols={8}
maxRows == 8
maxCols == 8
Modes == {"horizontal", "vertical"}

(***************************************************************************)
(* Pages.  A page is [doc, idx, width, height]: the document it comes      *)
(* from, its 1-based position there, and its intrinsic size in points.     *)
(***************************************************************************)
PageSizes == {<<6, 8>>, <<8, 6>>, <<4, 4>>}
Page(d, k, sz) == [doc |-> d, idx |-> k, width |-> sz[1], height |-> sz[2]]

(***************************************************************************)
(* Files the user can select.  What PDFDocument.load does with a file's   *)
(* bytes is the file's own business: it returns a document (its pages,    *)
(* its isEncrypted flag) or throws an error with a message.  A message is  *)
(* a sequence of text fragments; a template literal concatenates them.     *)
(***************************************************************************)
Files == {"two.pdf", "three.pdf", "one.pdf", "empty.pdf",
          "locked.pdf", "flagged.pdf", "broken.pdf", "odd.pdf"}

Doc(sizes, enc) ==
    [throws |-> FALSE, message |-> <<>>, isEncrypted |-> enc, sizes |-> sizes]
Throws(msg) ==
    [throws |-> TRUE, message |-> msg, isEncrypted |-> FALSE, sizes |-> <<>>]

\* PDFDocument.load(pdfBytes, { ignoreEncryption: true })
load(f) ==
    CASE f = "two.pdf"     -> Doc(<< <<6, 8>>, <<8, 6>> >>, FALSE)
      [] f = "three.pdf"   -> Doc(<< <<4, 4>>, <<6, 8>>, <<6, 8>> >>, FALSE)
      [] f = "one.pdf"     -> Doc(<< <<8, 6>> >>, FALSE)
      [] f = "empty.pdf"   -> Doc(<< >>, FALSE)
      [] f = "flagged.pdf" -> Doc(<< <<6, 8>> >>, TRUE)
      [] f = "locked.pdf"  -> Throws(<<"Input document is ", "Encrypted">>)
      [] f = "broken.pdf"  -> Throws(<<"Failed to parse PDF document (", "offset", "=0)">>)
      [] f = "garbled.pdf" -> Throws(<<"Invalid PDF structure">>)
      [] f = "mixed.pdf"   -> Throws(<<"Expected", " the trailer of an ", "Encrypted",
                                       " document at ", "offset", " 0">>)
      [] OTHER             -> Throws(<<"Out of memory">>)

\* pdfDoc.getPages() of the document loaded from list entry id
getPages(id, doc) == [k \in 1..Len(doc.sizes) |-> Page(id, k, doc.sizes[k])]

\* String.prototype.toLowerCase on a fragment
toLowerCase(t) ==
    CASE t = "Encrypted" -> "encrypted"
      [] t = "Input document is " -> "input document is "
      [] t = "Failed to parse PDF document (" -> "failed to parse pdf document ("
      [] t = "Out of memory" -> "out of memory"
      [] t = "Invalid PDF structure" -> "invalid pdf structure"
      [] t = "Expected" -> "expected"
      [] OTHER -> t

\* message.toLowerCase().includes(needle)
includes(message, needle) ==
    \E k \in 1..Len(message) : toLowerCase(message[k]) = needle

\* useState<number | null>(null) for the drag indices
NoIndex == -1

(***************************************************************************)
(* The tiling loop body (handleRestructure, handleMergeAndRestructure).    *)
(* i and j are the 0-based loop variables of the source.                   *)
(***************************************************************************)
pagesPerNewPage(r, c) == r * c

\* mutant: every chunk sliced from the start of the sequence
chunk_fromStart(pages, i, ppp) == SubSeq(pages, 1, Min2(ppp, Len(pages)))

\* mutant: the slice end taken as inclusive
chunk_inclusiveEnd(pages, i, ppp) == SubSeq(pages, i + 1, Min2(i + ppp + 1, Len(pages)))

\* pages.slice(i, Math.min(i + pagesPerNewPage, totalPages))
chunk(pages, i, ppp) == SubSeq(pages, i + 1, Min2(i + ppp, Len(pages)))

tileWidth(refWidth, c) == RDiv(R(refWidth), R(c))
tileHeight(refHeight, r) == RDiv(R(refHeight), R(r))

scaleX(tw, pageWidth) == RDiv(tw, R(pageWidth))
scaleY(th, pageHeight) == RDiv(th, R(pageHeight))
\* mutant: Math.max in place of Math.min
scale_max(tw, th, pageWidth, pageHeight) ==
    IF RLe(scaleX(tw, pageWidth), scaleY(th, pageHeight))
    THEN scaleY(th, pageHeight) ELSE scaleX(tw, pageWidth)

scale(tw, th, pageWidth, pageHeight) ==
    RMin(scaleX(tw, pageWidth), scaleY(th, pageHeight))

\* mutant: the row taken with % in place of Math.floor(j / cols)
rowIndex_modulo(j, c) == j % c

rowIndex(j, c) == j \div c
colIndex(j, c) == j % c

\* mutant: the horizontal branch indexes columns by rowIndex
xPos_rowIndexOnly(j, c, mode, tw) == RMul(R(rowIndex(j, c)), tw)

\* mutant: the vertical branch keeps the horizontal row arithmetic
yPos_rowIndexOnly(j, c, mode, th, refHeight) ==
    RSub(R(refHeight), RMul(R(rowIndex(j, c) + 1), th))

\* xPos, yPos as assigned in the if/else on restructureMode (before centering)
xPos(j, c, mode, tw) ==
    IF mode = "horizontal"
    THEN RMul(R(colIndex(j, c)), tw)
    ELSE RMul(R(rowIndex(j, c)), tw)

yPos(j, c, mode, th, refHeight) ==
    IF mode = "horizontal"
    THEN RSub(R(refHeight), RMul(R(rowIndex(j, c) + 1), th))
    ELSE RSub(R(refHeight), RMul(R(colIndex(j, c) + 1), th))

scaledWidth(pageWidth, s) == RMul(R(pageWidth), s)
scaledHeight(pageHeight, s) == RMul(R(pageHeight), s)

\* xPos += (tileWidth - scaledWidth) / 2, yPos += (tileHeight - scaledHeight) / 2
centered(pos, tileExtent, scaledExtent) ==
    RAdd(pos, RDiv(RSub(tileExtent, scaledExtent), R(2)))

\* one newPage.drawPage(embeddedPage, {x, y, width, height}) call
drawPage(page, j, r, c, mode, refWidth, refHeight) ==
    LET tw == tileWidth(refWidth, c)
        th == tileHeight(refHeight, r)
        s  == scale(tw, th, page.width, page.height)
        sw == scaledWidth(page.width, s)
        sh == scaledHeight(page.height, s)
    IN  [page   |-> page,
         x      |-> centered(xPos(j, c, mode, tw), tw, sw),
         y      |-> centered(yPos(j, c, mode, th, refHeight), th, sh),
         width  |-> sw,
         height |-> sh]

\* mutant: the reference size taken from the last page of the chunk
newPage_lastPage(pages, i, r, c, mode) ==
    LET ch == chunk(pages, i, pagesPerNewPage(r, c))
        last == ch[Len(ch)]
    IN  [width  |-> last.width,
         height |-> last.height,
         draws  |-> [j1 \in 1..Len(ch) |->
                        drawPage(ch[j1], j1 - 1, r, c, mode, last.width, last.height)]]

\* one iteration of the outer loop: the sheet added for the chunk starting at i
newPage(pages, i, r, c, mode) ==
    LET ch == chunk(pages, i, pagesPerNewPage(r, c))
    IN  [width  |-> ch[1].width,
         height |-> ch[1].height,
         draws  |-> [j1 \in 1..Len(ch) |->
                        drawPage(ch[j1], j1 - 1, r, c, mode, ch[1].width, ch[1].height)]]

(***************************************************************************)
(* State.                                                                  *)
(***************************************************************************)
VARIABLES
    \* Merge tab
    mergeFiles,                 \* list of [id, file]
    processingMerge,
    progressMerge,
    draggedMergeItemIndex,
    dragOverMergeItemIndex,
    \* Restructure tab
    restructureFile,            \* << >> for null, else <<[file, name]>>
    processingRestructure,
    progressRestructure,
    restructureMode,
    rows,
    cols,
    \* Merge & Restructure tab
    mergeRestructureFiles,
    processingMergeRestructure,
    progressMergeRestructure,
    draggedMRItemIndex,
    dragOverMRItemIndex,
    \* the running call of each async handler: its closure and locals
    mergeRun,
    restructureRun,
    mrRun,
    \* <Tabs defaultValue="merge">: the tab whose content is mounted
    activeTab,
    \* the world around the component
    nextId,                     \* ids drawn from crypto.randomUUID so far
    runs,                       \* clicks on the operation buttons so far
    toasts,                     \* toast calls of handleFileChange, in order
    \* SpecTile: the tiling loop on its own
    tPages,     \* pages
    tRows,      \* rows
    tCols,      \* cols
    tMode,      \* restructureMode
    tI,         \* loop variable i
    tSheets,    \* pages added to newPdfDoc so far
    tPc         \* "loop" while the for loop runs, "done" after it

mergeTab == <<mergeFiles, processingMerge, progressMerge,
              draggedMergeItemIndex, dragOverMergeItemIndex, mergeRun>>
restructureTab == <<restructureFile, processingRestructure, progressRestructure,
                    restructureRun>>
gridVars == <<restructureMode, rows, cols>>
mrTab == <<mergeRestructureFiles, processingMergeRestructure, progressMergeRestructure,
           draggedMRItemIndex, dragOverMRItemIndex, mrRun>>
world == <<nextId, runs, toasts>>
uivars == <<mergeTab, restructureTab, gridVars, mrTab, activeTab, world>>

tvars == <<tPages, tRows, tCols, tMode, tI, tSheets, tPc>>

vars == <<uivars, tvars>>

Idle == [pc |-> "idle"]

\* the state after the component is constructed
UIInit ==
    /\ mergeFiles = <<>>
    /\ processingMerge = FALSE
    /\ progressMerge = R(0)
    /\ draggedMergeItemIndex = NoIndex
    /\ dragOverMergeItemIndex = NoIndex
    /\ restructureFile = <<>>
    /\ processingRestructure = FALSE
    /\ progressRestructure = R(0)
    /\ restructureMode = "horizontal"
    /\ rows = 2
    /\ cols = 2
    /\ mergeRestructureFiles = <<>>
    /\ processingMergeRestructure = FALSE
    /\ progressMergeRestructure = R(0)
    /\ draggedMRItemIndex = NoIndex
    /\ dragOverMRItemIndex = NoIndex
    /\ mergeRun = Idle
    /\ restructureRun = Idle
    /\ mrRun = Idle
    /\ nextId = 0
    /\ runs = 0
    /\ toasts = <<>>

(***************************************************************************)
(* Helpers of the handlers.                                                *)
(***************************************************************************)
\* toast({ title, description, variant })
toast(title, description, variant) ==
    [title |-> title, description |-> description, variant |-> variant]

\* mutant: link.download never set, the browser names the file itself
downloadPdf_noName(doc, filename) == [filename |-> <<>>, doc |-> doc]

\* downloadPdf(bytes, filename): the saved document and its file name
downloadPdf(doc, filename) == [filename |-> filename, doc |-> doc]

\* error.message || fallback
messageOr(message, fallback) == IF message = <<>> THEN fallback ELSE message

NoError == [thrown |-> FALSE, message |-> <<>>]
Error(message) == [thrown |-> TRUE, message |-> message]

\* all sequences over S of length 0..n
RECURSIVE SeqsUpTo(_, _)
SeqsUpTo(S, n) ==
    IF n = 0 THEN {<<>>}
    ELSE LET shorter == SeqsUpTo(S, n - 1)
         IN  shorter \cup {Append(q, x) : q \in shorter, x \in S}

\* Array.prototype.filter
filter(list, keep(_)) == SelectSeq(list, keep)

(***************************************************************************)
(* handleFileChange, removeFile.                                           *)
(***************************************************************************)
\* Array.from(files).map(file => ({ id: crypto.randomUUID(), file, name }))
newFiles(files) ==
    [k \in 1..Len(files) |-> [id |-> nextId + k, file |-> files[k], name |-> files[k]]]

handleFileChange(files, type) ==
    /\ nextId + Len(files) <= MaxIds
    /\ nextId' = nextId + Len(files)
    /\ CASE type = "merge" ->
              /\ mergeFiles' = mergeFiles \o newFiles(files)
              /\ UNCHANGED <<restructureFile, mergeRestructureFiles, toasts>>
         [] type = "restructure" ->
              /\ toasts' = IF restructureFile # <<>>
                           THEN Append(toasts,
                                    toast("Replace File",
                                          <<"Replacing the existing file for restructuring.">>,
                                          "default"))
                           ELSE toasts
              /\ restructureFile' =
                    IF Len(files) > 0
                    THEN <<[file |-> newFiles(files)[1].file, name |-> newFiles(files)[1].name]>>
                    ELSE restructureFile
              /\ UNCHANGED <<mergeFiles, mergeRestructureFiles>>
         [] type = "merge-restructure" ->
              /\ mergeRestructureFiles' = mergeRestructureFiles \o newFiles(files)
              /\ UNCHANGED <<mergeFiles, restructureFile, toasts>>
    /\ UNCHANGED <<processingMerge, progressMerge, draggedMergeItemIndex,
                   dragOverMergeItemIndex, mergeRun,
                   processingRestructure, progressRestructure, restructureRun, gridVars,
                   processingMergeRestructure, progressMergeRestructure,
                   draggedMRItemIndex, dragOverMRItemIndex, mrRun,
                   runs, activeTab, tvars>>

removeFile(id, type) ==
    /\ CASE type = "merge" ->
              /\ mergeFiles' = filter(mergeFiles, LAMBDA file : file.id # id)
              /\ UNCHANGED <<restructureFile, mergeRestructureFiles>>
         [] type = "restructure" ->
              /\ restructureFile' = <<>>
              /\ UNCHANGED <<mergeFiles, mergeRestructureFiles>>
         [] type = "merge-restructure" ->
              /\ mergeRestructureFiles' =
                    filter(mergeRestructureFiles, LAMBDA file : file.id # id)
              /\ UNCHANGED <<mergeFiles, restructureFile>>
    /\ UNCHANGED <<processingMerge, progressMerge, draggedMergeItemIndex,
                   dragOverMergeItemIndex, mergeRun,
                   processingRestructure, progressRestructure, restructureRun, gridVars,
                   processingMergeRestructure, progressMergeRestructure,
                   draggedMRItemIndex, dragOverMRItemIndex, mrRun,
                   world, activeTab, tvars>>

(***************************************************************************)
(* handleMerge.  The handler runs to its first await on the click; each    *)
(* loop iteration and the code after the loop run when their awaits        *)
(* resolve.  mergeRun is the latest call of the handler: its closure (the  *)
(* mergeFiles of the render the click happened in), its locals i and       *)
(* mergedPdf, and what it has done so far: the entries it called           *)
(* PDFDocument.load on, its toasts, its downloads.  pc is "idle" before    *)
(* the first call, "loop" while the call is suspended in the loop, and     *)
(* "rejected", "failed" or "done" once it has returned.                    *)
(***************************************************************************)
\* mutant: the isEncrypted check after the load left out
mergeLoadError_ignoresFlag(file) ==
    LET pdfDoc == load(file.file)
    IN  IF pdfDoc.throws
        THEN IF includes(pdfDoc.message, "encrypted")
             THEN Error(<<"One or more PDFs are encrypted and cannot be merged.">>)
             ELSE Error(pdfDoc.message)
        ELSE NoError

\* the error the loop body throws for `file`, if any (try/catch around load,
\* then the isEncrypted check)
mergeLoadError(file) ==
    LET pdfDoc == load(file.file)
    IN  IF pdfDoc.throws
        THEN IF includes(pdfDoc.message, "encrypted")
             THEN Error(<<"One or more PDFs are encrypted and cannot be merged.">>)
             ELSE IF \/ includes(pdfDoc.message, "invalid pdf structure")
                     \/ includes(pdfDoc.message, "expected")
                     \/ includes(pdfDoc.message, "offset")
                  THEN Error(<<"File \"", file.name, "\" is not a valid PDF or is corrupted.">>)
                  ELSE Error(pdfDoc.message)
        ELSE IF pdfDoc.isEncrypted
             THEN Error(<<"File \"", file.name, "\" is encrypted and cannot be merged.">>)
             ELSE NoError

\* mutant: the copied pages inserted at the front of the document
copyPages_prepend(mergedPdf, file) == getPages(file.id, load(file.file)) \o mergedPdf

\* copiedPages.forEach((page) => mergedPdf.addPage(page))
copyPages(mergedPdf, file) == mergedPdf \o getPages(file.id, load(file.file))

\* ((i + 1) / totalFiles) * 100
currentProgress(i, totalFiles) == RMul(RDiv(R(i + 1), R(totalFiles)), R(100))

MergeRun(pc, files, t) ==
    [pc |-> pc, mergeFiles |-> files, i |-> 0, mergedPdf |-> <<>>,
     loads |-> <<>>, toasts |-> t, downloads |-> <<>>]

handleMerge ==
    /\ runs < MaxRuns
    /\ runs' = runs + 1
    /\ IF Len(mergeFiles) < 2
       THEN /\ mergeRun' = MergeRun("rejected", mergeFiles,
                              <<toast("Error",
                                      <<"Please select at least two PDF files to merge.">>,
                                      "destructive")>>)
            /\ UNCHANGED <<processingMerge, progressMerge>>
       ELSE /\ processingMerge' = TRUE
            /\ progressMerge' = R(0)
            /\ mergeRun' = MergeRun("loop", mergeFiles, <<>>)
    /\ UNCHANGED <<mergeFiles, draggedMergeItemIndex, dragOverMergeItemIndex,
                   restructureTab, gridVars, mrTab, nextId, toasts, activeTab, tvars>>

\* mutant: no finally block
mergeFinally_noReset == UNCHANGED <<processingMerge, progressMerge>>

\* the finally block
mergeFinally ==
    /\ processingMerge' = FALSE
    /\ progressMerge' = R(0)

\* mutant: the error caught inside the loop body, the loop going on with the
\* next file
mergeIteration_continues ==
    /\ mergeRun.pc = "loop"
    /\ mergeRun.i < Len(mergeRun.mergeFiles)
    /\ LET file == mergeRun.mergeFiles[mergeRun.i + 1]
           error == mergeLoadError(file)
       IN  /\ mergeRun' = [mergeRun EXCEPT
                              !.loads = Append(@, file.id),
                              !.mergedPdf = IF error.thrown THEN @ ELSE copyPages(@, file),
                              !.toasts = IF error.thrown
                                         THEN Append(@, toast("Merge Error", error.message,
                                                              "destructive"))
                                         ELSE @,
                              !.i = @ + 1]
           /\ progressMerge' = currentProgress(mergeRun.i, Len(mergeRun.mergeFiles))
           /\ UNCHANGED processingMerge
    /\ UNCHANGED <<mergeFiles, draggedMergeItemIndex, dragOverMergeItemIndex,
                   restructureTab, gridVars, mrTab, world, activeTab, tvars>>

\* one iteration of for (let i = 0; i < totalFiles; i++)
mergeIteration ==
    /\ mergeRun.pc = "loop"
    /\ mergeRun.i < Len(mergeRun.mergeFiles)
    /\ LET file == mergeRun.mergeFiles[mergeRun.i + 1]
           error == mergeLoadError(file)
       IN  IF error.thrown
           THEN /\ mergeRun' = [mergeRun EXCEPT
                                   !.pc = "failed",
                                   !.loads = Append(@, file.id),
                                   !.toasts = Append(@,
                                       toast("Merge Error",
                                             messageOr(error.message,
                                                 <<"An unexpected error occurred during merging.">>),
                                             "destructive"))]
                /\ mergeFinally
           ELSE /\ mergeRun' = [mergeRun EXCEPT
                                   !.loads = Append(@, file.id),
                                   !.mergedPdf = copyPages(@, file),
                                   !.i = @ + 1]
                /\ progressMerge' =
                      currentProgress(mergeRun.i, Len(mergeRun.mergeFiles))
                /\ UNCHANGED processingMerge
    /\ UNCHANGED <<mergeFiles, draggedMergeItemIndex, dragOverMergeItemIndex,
                   restructureTab, gridVars, mrTab, world, activeTab, tvars>>

\* mutant: setMergeFiles([]) left out
mergeSave_keepsList ==
    /\ mergeRun.pc = "loop"
    /\ mergeRun.i >= Len(mergeRun.mergeFiles)
    /\ mergeRun' = [mergeRun EXCEPT
                       !.pc = "done",
                       !.downloads = Append(@, downloadPdf(mergeRun.mergedPdf,
                                                           <<"merged_document.pdf">>)),
                       !.toasts = Append(@, toast("Success",
                                                  <<"PDFs merged successfully!">>,
                                                  "default"))]
    /\ mergeFinally
    /\ UNCHANGED <<mergeFiles, draggedMergeItemIndex, dragOverMergeItemIndex,
                   restructureTab, gridVars, mrTab, world, activeTab, tvars>>

\* after the loop: save, download, toast, clear the list, finally
mergeSave ==
    /\ mergeRun.pc = "loop"
    /\ mergeRun.i >= Len(mergeRun.mergeFiles)
    /\ mergeRun' = [mergeRun EXCEPT
                       !.pc = "done",
                       !.downloads = Append(@, downloadPdf(mergeRun.mergedPdf,
                                                           <<"merged_document.pdf">>)),
                       !.toasts = Append(@, toast("Success",
                                                  <<"PDFs merged successfully!">>,
                                                  "default"))]
    /\ mergeFiles' = <<>>
    /\ mergeFinally
    /\ UNCHANGED <<draggedMergeItemIndex, dragOverMergeItemIndex,
                   restructureTab, gridVars, mrTab, world, activeTab, tvars>>

\* mutant: the button disabled by the length of the list only
mergeDisabled_listOnly == Len(mergeFiles) < 2

\* disabled={processingMerge || mergeFiles.length < 2}
mergeDisabled == processingMerge \/ Len(mergeFiles) < 2

(***************************************************************************)
(* handleRestructure.  restructureRun holds the closure (restructureFile,  *)
(* rows, cols, restructureMode of the render the click happened in) and    *)
(* the locals pages, i and newPdfDoc.                                      *)
(***************************************************************************)
\* mutant: the test for a corrupted file made before the test for encryption
restructureLoadError_invalidFirst(file) ==
    LET pdfDoc == load(file.file)
    IN  IF pdfDoc.throws
        THEN IF \/ includes(pdfDoc.message, "invalid pdf structure")
                \/ includes(pdfDoc.message, "expected")
                \/ includes(pdfDoc.message, "offset")
             THEN Error(<<"The file \"", file.name, "\" is not a valid PDF or is corrupted.">>)
             ELSE IF includes(pdfDoc.message, "encrypted")
                  THEN Error(<<"The PDF is encrypted and cannot be restructured.">>)
                  ELSE Error(pdfDoc.message)
        ELSE IF pdfDoc.isEncrypted
             THEN Error(<<"The file \"", file.name, "\" is encrypted and cannot be restructured.">>)
             ELSE NoError

restructureLoadError(file) ==
    LET pdfDoc == load(file.file)
    IN  IF pdfDoc.throws
        THEN IF includes(pdfDoc.message, "encrypted")
             THEN Error(<<"The PDF is encrypted and cannot be restructured.">>)
             ELSE IF \/ includes(pdfDoc.message, "invalid pdf structure")
                     \/ includes(pdfDoc.message, "expected")
                     \/ includes(pdfDoc.message, "offset")
                  THEN Error(<<"The file \"", file.name, "\" is not a valid PDF or is corrupted.">>)
                  ELSE Error(pdfDoc.message)
        ELSE IF pdfDoc.isEncrypted
             THEN Error(<<"The file \"", file.name, "\" is encrypted and cannot be restructured.">>)
             ELSE NoError

\* mutant: only the product tested
invalidGrid_productOnly(r, c) == r * c < 1

\* rows < 1 || cols < 1 || rows * cols < 1
invalidGrid(r, c) == r < 1 \/ c < 1 \/ r * c < 1

\* ((i + chunk.length) / totalPages) * 100
chunkProgress(i, chunkLength, totalPages) ==
    RMul(RDiv(R(i + chunkLength), R(totalPages)), R(100))

RestructureRun(pc, file, t) ==
    [pc |-> pc, restructureFile |-> file, rows |-> rows, cols |-> cols,
     restructureMode |-> restructureMode,
     pages |-> <<>>, i |-> 0, newPdfDoc |-> <<>>,
     loads |-> <<>>, toasts |-> t, downloads |-> <<>>]

handleRestructure ==
    /\ runs < MaxRuns
    /\ runs' = runs + 1
    /\ IF restructureFile = <<>>
       THEN /\ restructureRun' = RestructureRun("rejected", restructureFile,
                                    <<toast("Error",
                                            <<"Please select a PDF file to restructure.">>,
                                            "destructive")>>)
            /\ UNCHANGED <<processingRestructure, progressRestructure>>
       ELSE IF invalidGrid(rows, cols)
       THEN /\ restructureRun' = RestructureRun("rejected", restructureFile,
                                    <<toast("Error",
                                            <<"Number of rows and columns must be at least 1.">>,
                                            "destructive")>>)
            /\ UNCHANGED <<processingRestructure, progressRestructure>>
       ELSE /\ processingRestructure' = TRUE
            /\ progressRestructure' = R(0)
            /\ restructureRun' = RestructureRun("load", restructureFile, <<>>)
    /\ UNCHANGED <<restructureFile, mergeTab, gridVars, mrTab, nextId, toasts, activeTab, tvars>>

restructureFinally ==
    /\ processingRestructure' = FALSE
    /\ progressRestructure' = R(0)

\* from arrayBuffer() to the totalPages === 0 check
restructureLoad ==
    /\ restructureRun.pc = "load"
    /\ LET file == restructureRun.restructureFile[1]
           error == restructureLoadError(file)
           pages == getPages(0, load(file.file))
       IN  IF error.thrown
           THEN /\ restructureRun' = [restructureRun EXCEPT
                      !.pc = "failed",
                      !.loads = Append(@, 0),
                      !.toasts = Append(@,
                          toast("Restructure Error",
                                messageOr(error.message,
                                    <<"An unexpected error occurred during restructuring.">>),
                                "destructive"))]
                /\ restructureFinally
           ELSE IF Len(pages) = 0
           THEN /\ restructureRun' = [restructureRun EXCEPT
                      !.pc = "nopages",
                      !.loads = Append(@, 0),
                      !.toasts = Append(@,
                          toast("Error", <<"The selected PDF has no pages.">>,
                                "destructive"))]
                /\ restructureFinally
           ELSE /\ restructureRun' = [restructureRun EXCEPT
                      !.pc = "loop", !.loads = Append(@, 0), !.pages = pages]
                /\ UNCHANGED <<processingRestructure, progressRestructure>>
    /\ UNCHANGED <<restructureFile, mergeTab, gridVars, mrTab, world, activeTab, tvars>>

\* one iteration of for (let i = 0; i < totalPages; i += pagesPerNewPage)
restructureChunk ==
    /\ restructureRun.pc = "loop"
    /\ restructureRun.i < Len(restructureRun.pages)
    /\ LET run == restructureRun
           ppp == pagesPerNewPage(run.rows, run.cols)
           sheet == newPage(run.pages, run.i, run.rows, run.cols, run.restructureMode)
       IN  /\ restructureRun' = [run EXCEPT !.newPdfDoc = Append(@, sheet),
                                            !.i = @ + ppp]
           /\ progressRestructure' =
                 chunkProgress(run.i, Len(sheet.draws), Len(run.pages))
    /\ UNCHANGED <<restructureFile, processingRestructure, mergeTab, gridVars, mrTab,
                   world, activeTab, tvars>>

restructureSave ==
    /\ restructureRun.pc = "loop"
    /\ restructureRun.i >= Len(restructureRun.pages)
    /\ restructureRun' = [restructureRun EXCEPT
           !.pc = "done",
           !.downloads = Append(@,
               downloadPdf(restructureRun.newPdfDoc,
                           <<"restructured_", restructureRun.restructureFile[1].name>>)),
           !.toasts = Append(@, toast("Success", <<"PDF restructured successfully!">>,
                                      "default"))]
    /\ restructureFile' = <<>>
    /\ restructureFinally
    /\ UNCHANGED <<mergeTab, gridVars, mrTab, world, activeTab, tvars>>

\* disabled={processingRestructure || !restructureFile}
restructureDisabled == processingRestructure \/ restructureFile = <<>>

(***************************************************************************)
(* handleMergeAndRestructure.  mrRun holds the closure                     *)
(* (mergeRestructureFiles, rows, cols, restructureMode) and the locals i,  *)
(* mergedPdfDoc, pages and newPdfDoc.                                      *)
(***************************************************************************)
mrLoadError(file) ==
    LET pdfDoc == load(file.file)
    IN  IF pdfDoc.throws
        THEN IF includes(pdfDoc.message, "encrypted")
             THEN Error(<<"File \"", file.name, "\" is encrypted and cannot be processed.">>)
             ELSE IF \/ includes(pdfDoc.message, "invalid pdf structure")
                     \/ includes(pdfDoc.message, "expected")
                     \/ includes(pdfDoc.message, "offset")
                  THEN Error(<<"File \"", file.name, "\" is not a valid PDF or is corrupted.">>)
                  ELSE Error(pdfDoc.message)
        ELSE IF pdfDoc.isEncrypted
             THEN Error(<<"File \"", file.name, "\" is encrypted and cannot be processed.">>)
             ELSE NoError

\* mergeProgressMultiplier, restructureProgressMultiplier = 0.5
progressMultiplier == Rat(1, 2)

\* ((i + 1) / totalFiles) * mergeProgressMultiplier * 100
currentMergeProgress(i, totalFiles) ==
    RMul(RMul(RDiv(R(i + 1), R(totalFiles)), progressMultiplier), R(100))

\* mutant: the 50 of the merge phase not added
currentRestructureProgress_noOffset(i, chunkLength, totalMergedPages) ==
    RMul(RMul(RDiv(R(i + chunkLength), R(totalMergedPages)), progressMultiplier), R(100))

\* 50 + ((i + chunk.length) / totalMergedPages) * restructureProgressMultiplier * 100
currentRestructureProgress(i, chunkLength, totalMergedPages) ==
    RAdd(R(50),
         RMul(RMul(RDiv(R(i + chunkLength), R(totalMergedPages)), progressMultiplier),
              R(100)))

MRRun(pc, files, t) ==
    [pc |-> pc, mergeRestructureFiles |-> files, rows |-> rows, cols |-> cols,
     restructureMode |-> restructureMode,
     i |-> 0, mergedPdfDoc |-> <<>>, newPdfDoc |-> <<>>,
     loads |-> <<>>, toasts |-> t, downloads |-> <<>>]

\* mutant: the minimum of plain merge applied (length < 2)
handleMergeAndRestructure_needsTwo ==
    /\ runs < MaxRuns
    /\ runs' = runs + 1
    /\ IF Len(mergeRestructureFiles) < 2
       THEN /\ mrRun' = MRRun("rejected", mergeRestructureFiles,
                           <<toast("Error",
                                   <<"Please select at least one PDF file to merge and restructure.">>,
                                   "destructive")>>)
            /\ UNCHANGED <<processingMergeRestructure, progressMergeRestructure>>
       ELSE IF invalidGrid(rows, cols)
       THEN /\ mrRun' = MRRun("rejected", mergeRestructureFiles,
                           <<toast("Error",
                                   <<"Number of rows and columns must be at least 1.">>,
                                   "destructive")>>)
            /\ UNCHANGED <<processingMergeRestructure, progressMergeRestructure>>
       ELSE /\ processingMergeRestructure' = TRUE
            /\ progressMergeRestructure' = R(0)
            /\ mrRun' = MRRun("merge", mergeRestructureFiles, <<>>)
    /\ UNCHANGED <<mergeRestructureFiles, draggedMRItemIndex, dragOverMRItemIndex,
                   mergeTab, restructureTab, gridVars, nextId, toasts, activeTab, tvars>>

handleMergeAndRestructure ==
    /\ runs < MaxRuns
    /\ runs' = runs + 1
    /\ IF Len(mergeRestructureFiles) < 1
       THEN /\ mrRun' = MRRun("rejected", mergeRestructureFiles,
                           <<toast("Error",
                                   <<"Please select at least one PDF file to merge and restructure.">>,
                                   "destructive")>>)
            /\ UNCHANGED <<processingMergeRestructure, progressMergeRestructure>>
       ELSE IF invalidGrid(rows, cols)
       THEN /\ mrRun' = MRRun("rejected", mergeRestructureFiles,
                           <<toast("Error",
                                   <<"Number of rows and columns must be at least 1.">>,
                                   "destructive")>>)
            /\ UNCHANGED <<processingMergeRestructure, progressMergeRestructure>>
       ELSE /\ processingMergeRestructure' = TRUE
            /\ progressMergeRestructure' = R(0)
            /\ mrRun' = MRRun("merge", mergeRestructureFiles, <<>>)
    /\ UNCHANGED <<mergeRestructureFiles, draggedMRItemIndex, dragOverMRItemIndex,
                   mergeTab, restructureTab, gridVars, nextId, toasts, activeTab, tvars>>

mrFinally ==
    /\ processingMergeRestructure' = FALSE
    /\ progressMergeRestructure' = R(0)

\* mutant: the merged document created anew in every iteration
mrMergeIteration_freshDoc ==
    /\ mrRun.pc = "merge"
    /\ mrRun.i < Len(mrRun.mergeRestructureFiles)
    /\ LET file == mrRun.mergeRestructureFiles[mrRun.i + 1]
           error == mrLoadError(file)
       IN  IF error.thrown
           THEN /\ mrRun' = [mrRun EXCEPT
                                !.pc = "failed",
                                !.loads = Append(@, file.id),
                                !.toasts = Append(@,
                                    toast("Process Error",
                                          messageOr(error.message,
                                              <<"An unexpected error occurred during the process.">>),
                                          "destructive"))]
                /\ mrFinally
           ELSE /\ mrRun' = [mrRun EXCEPT !.loads = Append(@, file.id),
                                          !.mergedPdfDoc = copyPages(<<>>, file),
                                          !.i = @ + 1]
                /\ progressMergeRestructure' =
                      currentMergeProgress(mrRun.i, Len(mrRun.mergeRestructureFiles))
                /\ UNCHANGED processingMergeRestructure
    /\ UNCHANGED <<mergeRestructureFiles, draggedMRItemIndex, dragOverMRItemIndex,
                   mergeTab, restructureTab, gridVars, world, activeTab, tvars>>

\* 1. Merge Phase: one iteration of for (let i = 0; i < totalFiles; i++)
mrMergeIteration ==
    /\ mrRun.pc = "merge"
    /\ mrRun.i < Len(mrRun.mergeRestructureFiles)
    /\ LET file == mrRun.mergeRestructureFiles[mrRun.i + 1]
           error == mrLoadError(file)
       IN  IF error.thrown
           THEN /\ mrRun' = [mrRun EXCEPT
                                !.pc = "failed",
                                !.loads = Append(@, file.id),
                                !.toasts = Append(@,
                                    toast("Process Error",
                                          messageOr(error.message,
                                              <<"An unexpected error occurred during the process.">>),
                                          "destructive"))]
                /\ mrFinally
           ELSE /\ mrRun' = [mrRun EXCEPT !.loads = Append(@, file.id),
                                          !.mergedPdfDoc = copyPages(@, file),
                                          !.i = @ + 1]
                /\ progressMergeRestructure' =
                      currentMergeProgress(mrRun.i, Len(mrRun.mergeRestructureFiles))
                /\ UNCHANGED processingMergeRestructure
    /\ UNCHANGED <<mergeRestructureFiles, draggedMRItemIndex, dragOverMRItemIndex,
                   mergeTab, restructureTab, gridVars, world, activeTab, tvars>>

\* mutant: the totalMergedPages === 0 check left out
mrRestructurePhase_noCheck ==
    /\ mrRun.pc = "merge"
    /\ mrRun.i >= Len(mrRun.mergeRestructureFiles)
    /\ mrRun' = [mrRun EXCEPT !.pc = "tile", !.i = 0]
    /\ UNCHANGED <<mergeRestructureFiles, processingMergeRestructure,
                   progressMergeRestructure, draggedMRItemIndex, dragOverMRItemIndex,
                   mergeTab, restructureTab, gridVars, world, activeTab, tvars>>

\* 2. Restructure Phase, up to the totalMergedPages === 0 check
mrRestructurePhase ==
    /\ mrRun.pc = "merge"
    /\ mrRun.i >= Len(mrRun.mergeRestructureFiles)
    /\ IF Len(mrRun.mergedPdfDoc) = 0
       THEN /\ mrRun' = [mrRun EXCEPT
                            !.pc = "nopages",
                            !.toasts = Append(@, toast("Error",
                                                       <<"The merged PDF has no pages.">>,
                                                       "destructive"))]
            /\ mrFinally
       ELSE /\ mrRun' = [mrRun EXCEPT !.pc = "tile", !.i = 0]
            /\ UNCHANGED <<processingMergeRestructure, progressMergeRestructure>>
    /\ UNCHANGED <<mergeRestructureFiles, draggedMRItemIndex, dragOverMRItemIndex,
                   mergeTab, restructureTab, gridVars, world, activeTab, tvars>>

\* mutant: the sheets always filled left-to-right, then top-to-bottom
mrChunk_horizontal ==
    /\ mrRun.pc = "tile"
    /\ mrRun.i < Len(mrRun.mergedPdfDoc)
    /\ LET ppp == pagesPerNewPage(mrRun.rows, mrRun.cols)
           sheet == newPage(mrRun.mergedPdfDoc, mrRun.i, mrRun.rows, mrRun.cols, "horizontal")
       IN  /\ mrRun' = [mrRun EXCEPT !.newPdfDoc = Append(@, sheet), !.i = @ + ppp]
           /\ progressMergeRestructure' =
                 currentRestructureProgress(mrRun.i, Len(sheet.draws), Len(mrRun.mergedPdfDoc))
    /\ UNCHANGED <<mergeRestructureFiles, processingMergeRestructure,
                   draggedMRItemIndex, dragOverMRItemIndex,
                   mergeTab, restructureTab, gridVars, world, activeTab, tvars>>

\* mutant: rows, cols and restructureMode read from the current state in
\* place of the values the handler was called with
mrChunk_liveGrid ==
    /\ mrRun.pc = "tile"
    /\ mrRun.i < Len(mrRun.mergedPdfDoc)
    /\ LET ppp == pagesPerNewPage(rows, cols)
           sheet == newPage(mrRun.mergedPdfDoc, mrRun.i, rows, cols, restructureMode)
       IN  /\ mrRun' = [mrRun EXCEPT !.newPdfDoc = Append(@, sheet), !.i = @ + ppp]
           /\ progressMergeRestructure' =
                 currentRestructureProgress(mrRun.i, Len(sheet.draws), Len(mrRun.mergedPdfDoc))
    /\ UNCHANGED <<mergeRestructureFiles, processingMergeRestructure,
                   draggedMRItemIndex, dragOverMRItemIndex,
                   mergeTab, restructureTab, gridVars, world, activeTab, tvars>>

\* one iteration of for (let i = 0; i < totalMergedPages; i += pagesPerNewPage)
mrChunk ==
    /\ mrRun.pc = "tile"
    /\ mrRun.i < Len(mrRun.mergedPdfDoc)
    /\ LET ppp == pagesPerNewPage(mrRun.rows, mrRun.cols)
           sheet == newPage(mrRun.mergedPdfDoc, mrRun.i, mrRun.rows, mrRun.cols,
                            mrRun.restructureMode)
       IN  /\ mrRun' = [mrRun EXCEPT !.newPdfDoc = Append(@, sheet), !.i = @ + ppp]
           /\ progressMergeRestructure' =
                 currentRestructureProgress(mrRun.i, Len(sheet.draws), Len(mrRun.mergedPdfDoc))
    /\ UNCHANGED <<mergeRestructureFiles, processingMergeRestructure,
                   draggedMRItemIndex, dragOverMRItemIndex,
                   mergeTab, restructureTab, gridVars, world, activeTab, tvars>>

\* 3. Save and Download
mrSave ==
    /\ mrRun.pc = "tile"
    /\ mrRun.i >= Len(mrRun.mergedPdfDoc)
    /\ mrRun' = [mrRun EXCEPT
                    !.pc = "done",
                    !.downloads = Append(@,
                        downloadPdf(mrRun.newPdfDoc, <<"merged_restructured_document.pdf">>)),
                    !.toasts = Append(@,
                        toast("Success", <<"PDFs merged and restructured successfully!">>,
                              "default"))]
    /\ mergeRestructureFiles' = <<>>
    /\ mrFinally
    /\ UNCHANGED <<draggedMRItemIndex, dragOverMRItemIndex,
                   mergeTab, restructureTab, gridVars, world, activeTab, tvars>>

\* disabled={processingMergeRestructure || mergeRestructureFiles.length < 1}
mrDisabled == processingMergeRestructure \/ Len(mergeRestructureFiles) < 1

(***************************************************************************)
(* Drag and drop on the list items of the merge tab and of the             *)
(* merge-and-restructure tab.  Indices are the 0-based indices of the      *)
(* source; NoIndex stands for null.  handle*DragOver sets no state, and    *)
(* handle*DragLeave sets none when the pointer stays inside the item.      *)
(***************************************************************************)
\* what [][0] yields: the removed-items array of splice was empty
undefined == [id |-> 0, file |-> "undefined", name |-> "undefined"]

\* Array.prototype.splice(start, deleteCount, ...items) for start >= 0:
\* the removed items and the array afterwards
splice(list, start, deleteCount, items) ==
    LET from == Min2(start, Len(list))
        upto == Min2(from + deleteCount, Len(list))
    IN  [removed |-> SubSeq(list, from + 1, upto),
         list |-> SubSeq(list, 1, from) \o items \o SubSeq(list, upto + 1, Len(list))]

\* mutant: the dragged item copied to its new place and left at the old one
dropped_noRemove(list, draggedIndex, index) ==
    IF draggedIndex < Len(list)
    THEN splice(list, index, 0, <<list[draggedIndex + 1]>>).list
    ELSE splice(list, index, 0, <<undefined>>).list

\* newFiles after the two splice calls of handleMergeDrop / handleMRDrop
dropped(list, draggedIndex, index) ==
    LET first == splice(list, draggedIndex, 1, <<>>)
        draggedItem == IF first.removed = <<>> THEN undefined ELSE first.removed[1]
    IN  splice(first.list, index, 0, <<draggedItem>>).list

\* the list items are rendered with key={pdfFile.id}: possible only while no
\* entry is undefined
Rendered ==
    /\ \A k \in 1..Len(mergeFiles) : mergeFiles[k] # undefined
    /\ \A k \in 1..Len(mergeRestructureFiles) : mergeRestructureFiles[k] # undefined

handleMergeDragStart(index) ==
    /\ draggedMergeItemIndex' = index
    /\ UNCHANGED <<mergeFiles, processingMerge, progressMerge, dragOverMergeItemIndex,
                   mergeRun, restructureTab, gridVars, mrTab, world, activeTab, tvars>>

handleMergeDragEnter(index) ==
    /\ dragOverMergeItemIndex' = index
    /\ UNCHANGED <<mergeFiles, processingMerge, progressMerge, draggedMergeItemIndex,
                   mergeRun, restructureTab, gridVars, mrTab, world, activeTab, tvars>>

\* the branch in which the pointer has left the item
handleMergeDragLeave ==
    /\ dragOverMergeItemIndex' = NoIndex
    /\ UNCHANGED <<mergeFiles, processingMerge, progressMerge, draggedMergeItemIndex,
                   mergeRun, restructureTab, gridVars, mrTab, world, activeTab, tvars>>

handleMergeDrop(index) ==
    /\ draggedMergeItemIndex # NoIndex
    /\ mergeFiles' = dropped(mergeFiles, draggedMergeItemIndex, index)
    /\ draggedMergeItemIndex' = NoIndex
    /\ dragOverMergeItemIndex' = NoIndex
    /\ UNCHANGED <<processingMerge, progressMerge, mergeRun,
                   restructureTab, gridVars, mrTab, world, activeTab, tvars>>

handleMergeDragEnd ==
    /\ draggedMergeItemIndex' = NoIndex
    /\ dragOverMergeItemIndex' = NoIndex
    /\ UNCHANGED <<mergeFiles, processingMerge, progressMerge, mergeRun,
                   restructureTab, gridVars, mrTab, world, activeTab, tvars>>

handleMRDragStart(index) ==
    /\ draggedMRItemIndex' = index
    /\ UNCHANGED <<mergeRestructureFiles, processingMergeRestructure,
                   progressMergeRestructure, dragOverMRItemIndex, mrRun,
                   mergeTab, restructureTab, gridVars, world, activeTab, tvars>>

handleMRDragEnter(index) ==
    /\ dragOverMRItemIndex' = index
    /\ UNCHANGED <<mergeRestructureFiles, processingMergeRestructure,
                   progressMergeRestructure, draggedMRItemIndex, mrRun,
                   mergeTab, restructureTab, gridVars, world, activeTab, tvars>>

handleMRDragLeave ==
    /\ dragOverMRItemIndex' = NoIndex
    /\ UNCHANGED <<mergeRestructureFiles, processingMergeRestructure,
                   progressMergeRestructure, draggedMRItemIndex, mrRun,
                   mergeTab, restructureTab, gridVars, world, activeTab, tvars>>

handleMRDrop(index) ==
    /\ draggedMRItemIndex # NoIndex
    /\ mergeRestructureFiles' = dropped(mergeRestructureFiles, draggedMRItemIndex, index)
    /\ draggedMRItemIndex' = NoIndex
    /\ dragOverMRItemIndex' = NoIndex
    /\ UNCHANGED <<processingMergeRestructure, progressMergeRestructure, mrRun,
                   mergeTab, restructureTab, gridVars, world, activeTab, tvars>>

handleMRDragEnd ==
    /\ draggedMRItemIndex' = NoIndex
    /\ dragOverMRItemIndex' = NoIndex
    /\ UNCHANGED <<mergeRestructureFiles, processingMergeRestructure,
                   progressMergeRestructure, mrRun,
                   mergeTab, restructureTab, gridVars, world, activeTab, tvars>>

(***************************************************************************)
(* Grid shape and orientation.                                             *)
(***************************************************************************)
handleGridChange(newRows, newCols) ==
    /\ rows' = newRows
    /\ cols' = newCols
    /\ UNCHANGED <<restructureMode, mergeTab, restructureTab, mrTab, world, activeTab, tvars>>

handleRestructureModeChange(value) ==
    /\ restructureMode' = value
    /\ UNCHANGED <<rows, cols, mergeTab, restructureTab, mrTab, world, activeTab, tvars>>

\* mutant: the 0-based map indices passed on instead of rowIndex, colIndex
handleClick_zeroBased(r, c) == handleGridChange(r - 1, c - 1)

\* GridSelector: a click on the cell of row r, column c calls onChange(r, c)
handleClick(r, c) == handleGridChange(r, c)

(***************************************************************************)
(* SpecTile: the tiling loop applied to every bounded input.               *)
(***************************************************************************)
PageSeqs(n) == [1..n -> PageSizes]

TileInit ==
    /\ \E n \in 1..MaxPages : \E f \in PageSeqs(n) :
          tPages = [k \in 1..n |-> Page(0, k, f[k])]
    /\ tRows \in 1..maxRows
    /\ tCols \in 1..maxCols
    /\ tMode \in Modes
    /\ tI = 0
    /\ tSheets = <<>>
    /\ tPc = "loop"
    /\ UIInit
    /\ activeTab = "restructure"

\* for (let i = 0; i < totalPages; i += pagesPerNewPage) { ... }
TileChunk ==
    /\ tPc = "loop"
    /\ tI < Len(tPages)
    /\ tSheets' = Append(tSheets, newPage(tPages, tI, tRows, tCols, tMode))
    /\ tI' = tI + pagesPerNewPage(tRows, tCols)
    /\ UNCHANGED <<tPages, tRows, tCols, tMode, tPc, uivars>>

TileDone ==
    /\ tPc = "loop"
    /\ tI >= Len(tPages)
    /\ tPc' = "done"
    /\ UNCHANGED <<tPages, tRows, tCols, tMode, tI, tSheets, uivars>>

TileNext == TileChunk \/ TileDone

SpecTile == TileInit /\ [][TileNext]_vars

(***************************************************************************)
(* SpecFullSheet: the tiling loop applied to exactly rows*cols pages of    *)
(* one size, for every grid the selector offers: one sheet with every      *)
(* tile taken.                                                             *)
(***************************************************************************)
FullSheetInit ==
    /\ tRows \in 1..maxRows
    /\ tCols \in 1..maxCols
    /\ tMode \in Modes
    /\ \E sz \in PageSizes :
          tPages = [k \in 1..(tRows * tCols) |-> Page(0, k, sz)]
    /\ tI = 0
    /\ tSheets = <<>>
    /\ tPc = "loop"
    /\ UIInit
    /\ activeTab = "restructure"

SpecFullSheet == FullSheetInit /\ [][TileNext]_vars

(***************************************************************************)
(* The user's events.  A tab's controls exist only while the tab is        *)
(* active; a button fires its handler unless it is disabled.               *)
(***************************************************************************)
TabNames == {"merge", "restructure", "merge-restructure"}

TileIdle ==
    /\ tPages = <<>>
    /\ tRows = 1
    /\ tCols = 1
    /\ tMode = "horizontal"
    /\ tI = 0
    /\ tSheets = <<>>
    /\ tPc = "idle"

\* what one change event of a `multiple` file input can deliver
Picks(S) == SeqsUpTo(S, MaxPick) \ {<<>>}

SwitchTab ==
    /\ Rendered
    /\ \E value \in TabNames \ {activeTab} : activeTab' = value
    /\ UNCHANGED <<mergeTab, restructureTab, gridVars, mrTab, world, tvars>>

SelectMergeFiles(S) ==
    /\ Rendered
    /\ activeTab = "merge"
    /\ \E files \in Picks(S) : handleFileChange(files, "merge")
SelectRestructureFile(S) ==
    /\ Rendered
    /\ activeTab = "restructure"
    /\ \E f \in S : handleFileChange(<<f>>, "restructure")
SelectMergeRestructureFiles(S) ==
    /\ Rendered
    /\ activeTab = "merge-restructure"
    /\ \E files \in Picks(S) : handleFileChange(files, "merge-restructure")

RemoveMergeFile ==
    /\ Rendered
    /\ activeTab = "merge"
    /\ \E k \in 1..Len(mergeFiles) : removeFile(mergeFiles[k].id, "merge")
RemoveRestructureFile ==
    /\ Rendered
    /\ activeTab = "restructure"
    /\ restructureFile # <<>>
    /\ removeFile(0, "restructure")
RemoveMergeRestructureFile ==
    /\ Rendered
    /\ activeTab = "merge-restructure"
    /\ \E k \in 1..Len(mergeRestructureFiles) :
          removeFile(mergeRestructureFiles[k].id, "merge-restructure")

ClickMerge == Rendered /\ activeTab = "merge" /\ ~mergeDisabled /\ handleMerge
ClickRestructure ==
    Rendered /\ activeTab = "restructure" /\ ~restructureDisabled /\ handleRestructure
ClickMergeAndRestructure ==
    Rendered /\ activeTab = "merge-restructure" /\ ~mrDisabled /\ handleMergeAndRestructure

\* both tiling tabs mount a GridSelector and the orientation radio group
ClickCell(C) ==
    /\ Rendered
    /\ activeTab \in {"restructure", "merge-restructure"}
    /\ \E cell \in C : handleClick(cell[1], cell[2])
ChooseMode ==
    /\ Rendered
    /\ activeTab \in {"restructure", "merge-restructure"}
    /\ \E value \in Modes : handleRestructureModeChange(value)

\* the awaits of the running handlers resolving
Resume ==
    \/ mergeIteration
    \/ mergeSave
    \/ restructureLoad
    \/ restructureChunk
    \/ restructureSave
    \/ mrMergeIteration
    \/ mrRestructurePhase
    \/ mrChunk
    \/ mrSave

UserNext(S, C) ==
    \/ SelectMergeFiles(S)
    \/ SelectRestructureFile(S)
    \/ SelectMergeRestructureFiles(S)
    \/ RemoveMergeFile
    \/ RemoveRestructureFile
    \/ RemoveMergeRestructureFile
    \/ ClickMerge
    \/ ClickRestructure
    \/ ClickMergeAndRestructure
    \/ ClickCell(C)
    \/ ChooseMode

(***************************************************************************)
(* Spec: the whole component, the user free to switch tabs while handlers  *)
(* run, over a small choice of files and grid cells.                       *)
(***************************************************************************)
SpecFiles == {"two.pdf", "flagged.pdf"}
SpecCells == {<<1, 2>>}

Init == UIInit /\ activeTab = "merge" /\ TileIdle

Next == UserNext(SpecFiles, SpecCells) \/ SwitchTab \/ Resume

Spec == Init /\ [][Next]_vars

(***************************************************************************)
(* SpecOps: each operation on its own, over every file of Files: the user  *)
(* opens one tab and stays on it.                                          *)
(***************************************************************************)
OpsCells == {<<1, 2>>}

OpsInit == UIInit /\ activeTab \in TabNames /\ TileIdle

OpsNext == UserNext(Files, OpsCells) \/ Resume

SpecOps == OpsInit /\ [][OpsNext]_vars

(***************************************************************************)
(* SpecDrag: the two reorderable lists.  The user stays on the merge tab   *)
(* or on the merge-and-restructure tab, selects and removes files, drags   *)
(* items and runs the tab's operation.  The drag events are delivered to   *)
(* the items rendered at that moment; a handler is called with the index   *)
(* of its item.                                                            *)
(***************************************************************************)
DragFiles == {"two.pdf", "locked.pdf"}

ItemIndices(list) == 0..(Len(list) - 1)

MergeDragStart ==
    /\ Rendered
    /\ activeTab = "merge"
    /\ \E index \in ItemIndices(mergeFiles) : handleMergeDragStart(index)
MergeDragEnter ==
    /\ Rendered
    /\ activeTab = "merge"
    /\ \E index \in ItemIndices(mergeFiles) : handleMergeDragEnter(index)
MergeDragLeave ==
    /\ Rendered
    /\ activeTab = "merge"
    /\ mergeFiles # <<>>
    /\ dragOverMergeItemIndex # NoIndex
    /\ handleMergeDragLeave
MergeDrop ==
    /\ Rendered
    /\ activeTab = "merge"
    /\ \E index \in ItemIndices(mergeFiles) : handleMergeDrop(index)
MergeDragEnd ==
    /\ Rendered
    /\ activeTab = "merge"
    /\ mergeFiles # <<>>
    /\ draggedMergeItemIndex # NoIndex
    /\ handleMergeDragEnd

MRDragStart ==
    /\ Rendered
    /\ activeTab = "merge-restructure"
    /\ \E index \in ItemIndices(mergeRestructureFiles) : handleMRDragStart(index)
MRDragEnter ==
    /\ Rendered
    /\ activeTab = "merge-restructure"
    /\ \E index \in ItemIndices(mergeRestructureFiles) : handleMRDragEnter(index)
MRDragLeave ==
    /\ Rendered
    /\ activeTab = "merge-restructure"
    /\ mergeRestructureFiles # <<>>
    /\ dragOverMRItemIndex # NoIndex
    /\ handleMRDragLeave
MRDrop ==
    /\ Rendered
    /\ activeTab = "merge-restructure"
    /\ \E index \in ItemIndices(mergeRestructureFiles) : handleMRDrop(index)
MRDragEnd ==
    /\ Rendered
    /\ activeTab = "merge-restructure"
    /\ mergeRestructureFiles # <<>>
    /\ draggedMRItemIndex # NoIndex
    /\ handleMRDragEnd

DragEvents ==
    \/ MergeDragStart
    \/ MergeDragEnter
    \/ MergeDragLeave
    \/ MergeDrop
    \/ MergeDragEnd
    \/ MRDragStart
    \/ MRDragEnter
    \/ MRDragLeave
    \/ MRDrop
    \/ MRDragEnd

ListEvents(S) ==
    \/ SelectMergeFiles(S)
    \/ SelectMergeRestructureFiles(S)
    \/ RemoveMergeFile
    \/ RemoveMergeRestructureFile
    \/ ClickMerge
    \/ ClickMergeAndRestructure

DragInit == UIInit /\ activeTab \in {"merge", "merge-restructure"} /\ TileIdle

ListResume ==
    \/ mergeIteration
    \/ mergeSave
    \/ mrMergeIteration
    \/ mrRestructurePhase
    \/ mrChunk
    \/ mrSave

\* once an undefined entry is in a list the render throws and no element is
\* left to take an event (Rendered); the suspended handlers still resume
DragNext == ListEvents(DragFiles) \/ DragEvents \/ ListResume

SpecDrag == DragInit /\ [][DragNext]_vars

(***************************************************************************)
(* SpecGrid: the restructure tab with every cell of the GridSelector.  The *)
(* user stays on the tab, selects one.pdf, clicks cells, chooses the       *)
(* orientation and runs the operation.                                     *)
(***************************************************************************)
\* the cells GridSelector renders: rowIndex = r + 1, colIndex = c + 1
GridCells == {<<r + 1, c + 1>> : r \in 0..(maxRows - 1), c \in 0..(maxCols - 1)}
GridFiles == {"one.pdf"}

GridInit == UIInit /\ activeTab = "restructure" /\ TileIdle

GridNext ==
    \/ SelectRestructureFile(GridFiles)
    \/ ClickRestructure
    \/ ClickCell(GridCells)
    \/ ChooseMode
    \/ restructureLoad
    \/ restructureChunk
    \/ restructureSave

SpecGrid == GridInit /\ [][GridNext]_vars

(***************************************************************************)
(* SpecHandlers: the three handlers called on any state of the component,  *)
(* not only on the states their buttons let through: any list length from  *)
(* 0 up, any grid shape of GridValues.  A handler is still not re-entered  *)
(* while its own operation is in flight.                                   *)
(***************************************************************************)
HandlerFiles == {"two.pdf", "empty.pdf", "locked.pdf"}
GridValues == {-1, 0, 1, 2}

HandlersInitOver(F, G) ==
    /\ TileIdle
    /\ activeTab \in TabNames
    /\ \E files \in SeqsUpTo(F, MaxPick) :
          /\ mergeFiles = IF activeTab = "merge"
                          THEN [k \in 1..Len(files) |->
                                   [id |-> k, file |-> files[k], name |-> files[k]]]
                          ELSE <<>>
          /\ restructureFile = IF activeTab = "restructure" /\ Len(files) > 0
                               THEN <<[file |-> files[1], name |-> files[1]]>>
                               ELSE <<>>
          /\ mergeRestructureFiles = IF activeTab = "merge-restructure"
                                     THEN [k \in 1..Len(files) |->
                                              [id |-> k, file |-> files[k], name |-> files[k]]]
                                     ELSE <<>>
          /\ nextId = Len(files)
    /\ rows \in G
    /\ cols \in G
    /\ restructureMode \in Modes
    /\ processingMerge = FALSE
    /\ progressMerge = R(0)
    /\ draggedMergeItemIndex = NoIndex
    /\ dragOverMergeItemIndex = NoIndex
    /\ processingRestructure = FALSE
    /\ progressRestructure = R(0)
    /\ processingMergeRestructure = FALSE
    /\ progressMergeRestructure = R(0)
    /\ draggedMRItemIndex = NoIndex
    /\ dragOverMRItemIndex = NoIndex
    /\ mergeRun = Idle
    /\ restructureRun = Idle
    /\ mrRun = Idle
    /\ runs = 0
    /\ toasts = <<>>

HandlersInit == HandlersInitOver(HandlerFiles, GridValues)

CallMerge == activeTab = "merge" /\ ~processingMerge /\ handleMerge
CallRestructure ==
    activeTab = "restructure" /\ ~processingRestructure /\ handleRestructure
CallMergeAndRestructure ==
    activeTab = "merge-restructure" /\ ~processingMergeRestructure
                                    /\ handleMergeAndRestructure

HandlersNext ==
    \/ CallMerge
    \/ CallRestructure
    \/ CallMergeAndRestructure
    \/ Resume

SpecHandlers == HandlersInit /\ [][HandlersNext]_vars

(***************************************************************************)
(* SpecSnapshot: the merge tab and the merge-and-restructure tab with the  *)
(* events that change what a handler has read: files added and removed,    *)
(* list items dragged and dropped, the grid and the orientation changed,   *)
(* while the handlers are suspended and resume.                            *)
(***************************************************************************)
SnapshotFiles == {"two.pdf", "one.pdf"}
SnapshotCells == {<<1, 2>>}

SnapshotInit == UIInit /\ activeTab \in {"merge", "merge-restructure"} /\ TileIdle

SnapshotNext ==
    \/ ListEvents(SnapshotFiles)
    \/ MergeDragStart
    \/ MergeDrop
    \/ MRDragStart
    \/ MRDrop
    \/ ClickCell(SnapshotCells)
    \/ ChooseMode
    \/ ListResume

SpecSnapshot == SnapshotInit /\ [][SnapshotNext]_vars

(***************************************************************************)
(* SpecTiling: the two tabs that tile, one after the other: a file chosen  *)
(* on the restructure tab, files chosen on the merge-and-restructure tab,  *)
(* the grid and orientation set, both buttons clicked.                     *)
(***************************************************************************)
TilingFiles == {"three.pdf", "one.pdf"}
TilingCells == {<<1, 2>>}

TilingInit == UIInit /\ activeTab \in {"restructure", "merge-restructure"} /\ TileIdle

TilingResume ==
    \/ restructureLoad
    \/ restructureChunk
    \/ restructureSave
    \/ mrMergeIteration
    \/ mrRestructurePhase
    \/ mrChunk
    \/ mrSave

TilingNext ==
    \/ SelectRestructureFile(TilingFiles)
    \/ SelectMergeRestructureFiles(TilingFiles)
    \/ ClickRestructure
    \/ ClickMergeAndRestructure
    \/ ClickCell(TilingCells)
    \/ ChooseMode
    \/ SwitchTab
    \/ TilingResume

SpecTiling == TilingInit /\ [][TilingNext]_vars

(***************************************************************************)
(* SpecLoad: the three handlers called on lists of the files whose load    *)
(* fails, each failure message of the catalogue among them, and of one     *)
(* file that loads; the grids are valid.                                   *)
(***************************************************************************)
LoadFiles == {"one.pdf", "locked.pdf", "broken.pdf", "garbled.pdf", "mixed.pdf", "odd.pdf"}

LoadInit == HandlersInitOver(LoadFiles, {1, 2})

SpecLoad == LoadInit /\ [][HandlersNext]_vars

(***************************************************************************)
(* FairHandlers: SpecHandlers with the awaits of a suspended handler       *)
(* settling: the browser resolves or rejects arrayBuffer(), load(), save() *)
(* and the 50 ms timer, and the event loop then runs the continuation.     *)
(* Weak fairness of each continuation.  For the two tiling steps the       *)
(* fairness condition is written out, WF_v(A) being                        *)
(* []<>~ENABLED <<A>>_v \/ []<><<A>>_v, with the step's guard in the place *)
(* of ENABLED: a tiling step is possible exactly when the loop has pages   *)
(* left, and it always advances i.                                         *)
(***************************************************************************)
restructureChunkPending ==
    restructureRun.pc = "loop" /\ restructureRun.i < Len(restructureRun.pages)

mrChunkPending ==
    mrRun.pc = "tile" /\ mrRun.i < Len(mrRun.mergedPdfDoc)

FairHandlers ==
    /\ SpecHandlers
    /\ WF_vars(mergeIteration) /\ WF_vars(mergeSave)
    /\ WF_vars(restructureLoad) /\ WF_vars(restructureSave)
    /\ WF_vars(mrMergeIteration) /\ WF_vars(mrRestructurePhase) /\ WF_vars(mrSave)
    /\ ([]<>~restructureChunkPending \/ []<><<restructureChunk>>_vars)
    /\ ([]<>~mrChunkPending \/ []<><<mrChunk>>_vars)

(***************************************************************************)
(* Properties of the tiling loop (SpecTile).                               *)
(***************************************************************************)
Ceil(n, k) == (n + k - 1) \div k

\* the tile origin a drawn page was centered from: (x, y) minus the margins
originX(d, tw) == RSub(d.x, RDiv(RSub(tw, d.width), R(2)))
originY(d, th) == RSub(d.y, RDiv(RSub(th, d.height), R(2)))

\* every drawn page of every sheet made so far satisfies P(sheet, j, draw),
\* j the 0-based index of the page in its chunk
AllDraws(P(_, _, _)) ==
    \A s \in 1..Len(tSheets) : \A j1 \in 1..Len(tSheets[s].draws) :
        P(tSheets[s], j1 - 1, tSheets[s].draws[j1])

SheetTileW(sh) == RDiv(R(sh.width), R(tCols))
SheetTileH(sh) == RDiv(R(sh.height), R(tRows))

\* a sheet of 4 pages that all have the sheet's size, on a 2 x 2 grid
TwoByTwoEqual(sh) ==
    /\ tRows = 2 /\ tCols = 2
    /\ Len(sh.draws) = 4
    /\ \A j1 \in 1..4 : /\ sh.draws[j1].page.width = sh.width
                        /\ sh.draws[j1].page.height = sh.height

TopLeft(sh, d)     == d.x = R(0) /\ RAdd(d.y, d.height) = R(sh.height)
TopRight(sh, d)    == RAdd(d.x, d.width) = R(sh.width) /\ RAdd(d.y, d.height) = R(sh.height)
BottomLeft(sh, d)  == d.x = R(0) /\ d.y = R(0)
BottomRight(sh, d) == RAdd(d.x, d.width) = R(sh.width) /\ d.y = R(0)

\* C2: when the loop is over there are exactly ceil(N/(r*c)) sheets, every
\* sheet but the last holds r*c pages, and the last holds N mod (r*c) pages,
\* or r*c when N is a multiple of r*c.
C2_SheetCount ==
    tPc = "done" =>
        LET n == Len(tPages)
            k == tRows * tCols
        IN  /\ Len(tSheets) = Ceil(n, k)
            /\ \A s \in 1..(Len(tSheets) - 1) : Len(tSheets[s].draws) = k
            /\ Len(tSheets[Len(tSheets)].draws) = (IF n % k = 0 THEN k ELSE n % k)

C2_Witness ==
    /\ tPc = "done"
    /\ Len(tSheets) >= 3
    /\ tRows * tCols = 2
    /\ Len(tPages) % 2 = 1

\* C3: in horizontal orientation page j of a chunk has tile origin
\* x = (j mod cols) * tileWidth, y = refHeight - (floor(j/cols) + 1) * tileHeight;
\* on a 2 x 2 grid with 4 equal-size pages the pages land top-left, top-right,
\* bottom-left, bottom-right.
C3_HorizontalFormula(sh, j, d) ==
    /\ originX(d, SheetTileW(sh)) = RMul(R(j % tCols), SheetTileW(sh))
    /\ originY(d, SheetTileH(sh)) =
          RSub(R(sh.height), RMul(R((j \div tCols) + 1), SheetTileH(sh)))

C3_Horizontal ==
    tMode = "horizontal" =>
        /\ AllDraws(C3_HorizontalFormula)
        /\ \A s \in 1..Len(tSheets) :
              TwoByTwoEqual(tSheets[s]) =>
                  /\ TopLeft(tSheets[s], tSheets[s].draws[1])
                  /\ TopRight(tSheets[s], tSheets[s].draws[2])
                  /\ BottomLeft(tSheets[s], tSheets[s].draws[3])
                  /\ BottomRight(tSheets[s], tSheets[s].draws[4])

C3_Witness ==
    /\ tMode = "horizontal"
    /\ Len(tSheets) >= 1
    /\ TwoByTwoEqual(tSheets[1])

\* C4: in vertical orientation page j of a chunk has tile origin
\* x = floor(j/cols) * tileWidth, y = refHeight - ((j mod cols) + 1) * tileHeight;
\* on a 2 x 2 grid with 4 equal-size pages the pages land top-left,
\* bottom-left, top-right, bottom-right.
C4_VerticalFormula(sh, j, d) ==
    /\ originX(d, SheetTileW(sh)) = RMul(R(j \div tCols), SheetTileW(sh))
    /\ originY(d, SheetTileH(sh)) =
          RSub(R(sh.height), RMul(R((j % tCols) + 1), SheetTileH(sh)))

C5_TileInside(sh, j, d) ==
    LET tw == SheetTileW(sh)
        th == SheetTileH(sh)
        tx == originX(d, tw)
        ty == originY(d, th)
    IN  /\ RLe(R(0), tx) /\ RLe(RAdd(tx, tw), R(sh.width))
        /\ RLe(R(0), ty) /\ RLe(RAdd(ty, th), R(sh.height))

C5_TileInsideSheet == AllDraws(C5_TileInside)

\* C6: in vertical orientation page j of a chunk lands in grid column
\* floor(j/rows) and grid row j mod rows, row 0 at the top.
C6_ColumnByColumn(sh, j, d) ==
    /\ originX(d, SheetTileW(sh)) = RMul(R(j \div tRows), SheetTileW(sh))
    /\ originY(d, SheetTileH(sh)) =
          RSub(R(sh.height), RMul(R((j % tRows) + 1), SheetTileH(sh)))

C6_VerticalColumnFill == tMode = "vertical" => AllDraws(C6_ColumnByColumn)

\* C7: a drawn page keeps its aspect ratio, is no wider and no taller than
\* its tile, touches the tile on at least one axis, and is centered: the
\* margins left and right are equal and the margins below and above are equal.
C7_Fit(sh, j, d) ==
    LET tw == SheetTileW(sh)
        th == SheetTileH(sh)
        tx == xPos(j, tCols, tMode, tw)
        ty == yPos(j, tCols, tMode, th, sh.height)
    IN  /\ RMul(d.width, R(d.page.height)) = RMul(d.height, R(d.page.width))
        /\ RLe(d.width, tw) /\ RLe(d.height, th)
        /\ d.width = tw \/ d.height = th
        /\ RSub(d.x, tx) = RSub(RAdd(tx, tw), RAdd(d.x, d.width))
        /\ RSub(d.y, ty) = RSub(RAdd(ty, th), RAdd(d.y, d.height))

InFlight(run) == run.pc \in {"loop", "load", "merge", "tile"}
\* the calls that have returned
Returned(run) == run.pc \in {"rejected", "failed", "nopages", "done"}

\* what loading a file by itself gives
LoadFails(f) == load(f).throws
Encrypted(f) ==
    \/ load(f).throws /\ \E k \in 1..Len(load(f).message) : load(f).message[k] = "Encrypted"
    \/ ~load(f).throws /\ load(f).isEncrypted
Unusable(f) == LoadFails(f) \/ Encrypted(f)
PageCount(f) == Len(load(f).sizes)

\* number of pages of the first n files of a list
RECURSIVE PagesBefore(_, _)
PagesBefore(files, n) ==
    IF n = 0 THEN 0 ELSE PagesBefore(files, n - 1) + PageCount(files[n].file)

\* C1: a merge that completes downloads exactly one document; it has as many
\* pages as the files of the list together, and page k of the p-th file is
\* at position (pages of the files before p) + k: the files' pages in list
\* order, each file's own order kept, nothing dropped, repeated or moved.
C1_MergeConcatenates ==
    mergeRun.pc = "done" =>
        LET files == mergeRun.mergeFiles
        IN  /\ Len(files) >= 2
            /\ Len(mergeRun.downloads) = 1
            /\ LET out == mergeRun.downloads[1].doc
               IN  /\ Len(out) = PagesBefore(files, Len(files))
                   /\ \A p \in 1..Len(files) : \A k \in 1..PageCount(files[p].file) :
                         LET page == out[PagesBefore(files, p - 1) + k]
                         IN  /\ page.doc = files[p].id
                             /\ page.idx = k
                             /\ <<page.width, page.height>> = load(files[p].file).sizes[k]

\* page counts [2, 3, 1] merged into 6 pages
C1_Witness ==
    /\ mergeRun.pc = "done"
    /\ [p \in 1..Len(mergeRun.mergeFiles) |-> PageCount(mergeRun.mergeFiles[p].file)]
          = <<2, 3, 1>>
    /\ Len(mergeRun.downloads) = 1
    /\ Len(mergeRun.downloads[1].doc) = 6

\* the files a call of a handler works on
MergeInputs == IF mergeRun.pc = "idle" THEN <<>>
               ELSE [p \in 1..Len(mergeRun.mergeFiles) |-> mergeRun.mergeFiles[p].file]
RestructureInputs == IF restructureRun.pc = "idle" THEN <<>>
                     ELSE [p \in 1..Len(restructureRun.restructureFile) |->
                              restructureRun.restructureFile[p].file]
MRInputs == IF mrRun.pc = "idle" THEN <<>>
            ELSE [p \in 1..Len(mrRun.mergeRestructureFiles) |->
                     mrRun.mergeRestructureFiles[p].file]

HasEncrypted(inputs) == \E p \in 1..Len(inputs) : Encrypted(inputs[p])

C8_Aborts(run, inputs) ==
    HasEncrypted(inputs) =>
        /\ run.downloads = <<>>
        /\ run.pc # "done"
        /\ Returned(run) =>
              /\ run.pc \in {"rejected", "failed"}
              /\ run.toasts # <<>>
              /\ run.toasts[Len(run.toasts)].variant = "destructive"

\* C8: an operation among whose input files one is encrypted, at whatever
\* position, never downloads anything and never completes; once it has
\* returned it has ended on an error.
C8_EncryptedAborts ==
    /\ C8_Aborts(mergeRun, MergeInputs)
    /\ C8_Aborts(restructureRun, RestructureInputs)
    /\ C8_Aborts(mrRun, MRInputs)

\* a merge aborted by an encrypted file that is not the first of the list
C8_Witness ==
    /\ mergeRun.pc = "failed"
    /\ Len(MergeInputs) >= 2
    /\ ~Unusable(MergeInputs[1])
    /\ Encrypted(MergeInputs[Len(mergeRun.loads)])
    /\ ~load(MergeInputs[Len(mergeRun.loads)]).throws
    /\ mergeRun.downloads = <<>>

C9_StopsAtFailure(run, files) ==
    run.pc # "idle" =>
        \* the files are loaded in list order, each once
        /\ Len(run.loads) <= Len(files)
        /\ \A n \in 1..Len(run.loads) : run.loads[n] = files[n].id
        \* every file loaded before the latest one loaded without failure
        /\ \A n \in 1..(Len(run.loads) - 1) : ~Unusable(files[n].file)
        \* after a failed load: nothing more, no output
        /\ (run.loads # <<>> /\ Unusable(files[Len(run.loads)].file)) =>
              /\ run.pc = "failed"
              /\ run.downloads = <<>>
        /\ run.pc = "failed" =>
              /\ run.loads # <<>>
              /\ Unusable(files[Len(run.loads)].file)
              /\ run.downloads = <<>>

\* C9: in a merge and in a merge-and-restructure, the files are loaded in
\* list order; once the load of the k-th file has failed the call has
\* returned as failed with exactly the files 1..k loaded, none after k, and
\* with no download, whatever had been copied from the files before k.
C9_FailureStopsEverything ==
    /\ C9_StopsAtFailure(mergeRun, IF mergeRun.pc = "idle" THEN <<>> ELSE mergeRun.mergeFiles)
    /\ C9_StopsAtFailure(mrRun, IF mrRun.pc = "idle" THEN <<>> ELSE mrRun.mergeRestructureFiles)

\* a merge of three files failed at the second, pages of the first copied
C9_Witness ==
    /\ mergeRun.pc = "failed"
    /\ Len(mergeRun.mergeFiles) = 3
    /\ Len(mergeRun.loads) = 2
    /\ mergeRun.mergedPdf # <<>>
    /\ mergeRun.downloads = <<>>

C10_Rejected(run, processing) ==
    /\ run.pc = "rejected"
    /\ run.loads = <<>>
    /\ run.downloads = <<>>
    /\ Len(run.toasts) = 1
    /\ run.toasts[1].title = "Error"
    /\ run.toasts[1].variant = "destructive"
    /\ ~processing

C10_BadGrid(run) == run.rows < 1 \/ run.cols < 1 \/ run.rows * run.cols < 1

\* C10: a merge called with fewer than 2 files, and a restructure or a
\* merge-and-restructure called with rows < 1, cols < 1 or rows*cols < 1,
\* has returned with one error toast, has loaded no file, has downloaded
\* nothing, and the operation's processing flag is not set.
C10_RejectedBeforeAnyLoad ==
    /\ (mergeRun.pc # "idle" /\ Len(mergeRun.mergeFiles) < 2) =>
          C10_Rejected(mergeRun, processingMerge)
    /\ (restructureRun.pc # "idle" /\ C10_BadGrid(restructureRun)) =>
          C10_Rejected(restructureRun, processingRestructure)
    /\ (mrRun.pc # "idle" /\ C10_BadGrid(mrRun)) =>
          C10_Rejected(mrRun, processingMergeRestructure)

\* a restructure of a selected file called with rows = -1 and cols = -1
C10_Witness ==
    /\ restructureRun.pc = "rejected"
    /\ restructureRun.restructureFile # <<>>
    /\ restructureRun.rows = -1
    /\ restructureRun.cols = -1
    /\ ~processingRestructure

\* a step in which a call of a handler returns, and how
Completes(run, run2) == InFlight(run) /\ run2.pc = "done"
Fails(run, run2) == InFlight(run) /\ run2.pc \in {"failed", "nopages"}

C11_Step ==
    /\ Completes(mergeRun, mergeRun') =>
          /\ mergeFiles' = <<>>
          /\ UNCHANGED <<restructureFile, mergeRestructureFiles>>
    /\ Completes(restructureRun, restructureRun') =>
          /\ restructureFile' = <<>>
          /\ UNCHANGED <<mergeFiles, mergeRestructureFiles>>
    /\ Completes(mrRun, mrRun') =>
          /\ mergeRestructureFiles' = <<>>
          /\ UNCHANGED <<mergeFiles, restructureFile>>
    /\ (\/ Fails(mergeRun, mergeRun')
        \/ Fails(restructureRun, restructureRun')
        \/ Fails(mrRun, mrRun')) =>
          UNCHANGED <<mergeFiles, restructureFile, mergeRestructureFiles>>

\* C11: the step in which an operation completes empties the selection of
\* that operation and leaves the two other selections as they were; the step
\* in which an operation fails leaves all three selections as they were.
C11_SuccessClearsFailureKeeps == [][C11_Step]_vars

\* a merge has completed and emptied its list while a file is selected for
\* restructuring
C11_Witness ==
    /\ mergeRun.pc = "done"
    /\ mergeFiles = <<>>
    /\ restructureFile # <<>>

\* C12: at most one of the three operations is in flight (its processing
\* flag set, its handler suspended at an await) in any reachable state.
C12_AtMostOneInFlight ==
    Cardinality({op \in {"merge", "restructure", "merge-restructure"} :
                    CASE op = "merge" -> processingMerge /\ InFlight(mergeRun)
                      [] op = "restructure" ->
                            processingRestructure /\ InFlight(restructureRun)
                      [] OTHER -> processingMergeRestructure /\ InFlight(mrRun)}) <= 1

Ids(list) == {list[k].id : k \in 1..Len(list)}

\* the entries of `list` that the step drops although the call that
\* completes in the step (closure `consumed`) never worked on them
LostUnconsumed(list, list2, consumed) == (Ids(list) \ Ids(list2)) \ Ids(consumed)

C13_Step ==
    /\ Completes(mergeRun, mergeRun') =>
          LostUnconsumed(mergeFiles, mergeFiles', mergeRun.mergeFiles) = {}
    /\ Completes(mrRun, mrRun') =>
          LostUnconsumed(mergeRestructureFiles, mergeRestructureFiles',
                         mrRun.mergeRestructureFiles) = {}
    /\ (mergeRun' = mergeRun /\ Ids(mergeFiles) \ Ids(mergeFiles') # {}) =>
          Len(mergeFiles') = Len(mergeFiles) - 1
    /\ (mrRun' = mrRun /\ Ids(mergeRestructureFiles) \ Ids(mergeRestructureFiles') # {}) =>
          Len(mergeRestructureFiles') = Len(mergeRestructureFiles) - 1

\* C13: an entry leaves the merge list or the merge-and-restructure list
\* only in a step that removes that one entry, or in the step that completes
\* an operation started on a list holding it; an entry added while the
\* operation was in flight is still listed after the operation completes.
C13_OnlyConsumedFilesLeave == [][C13_Step]_vars

\* the text of the toast contains the name
Names(t, name) == \E k \in 1..Len(t.description) : t.description[k] = name

C14_FailureNamesFile(run, files) ==
    run.pc = "failed" =>
        /\ run.toasts # <<>>
        /\ run.toasts[Len(run.toasts)].variant = "destructive"
        /\ Names(run.toasts[Len(run.toasts)], files[Len(run.loads)].name)

\* C14: when the load of a file has failed in any of the three operations
\* (encrypted, structurally invalid or any other failure), the error toast
\* shown names that file.
C14_LoadErrorNamesFile ==
    /\ C14_FailureNamesFile(mergeRun,
           IF mergeRun.pc = "idle" THEN <<>> ELSE mergeRun.mergeFiles)
    /\ C14_FailureNamesFile(restructureRun,
           IF restructureRun.pc = "idle" THEN <<>> ELSE restructureRun.restructureFile)
    /\ C14_FailureNamesFile(mrRun,
           IF mrRun.pc = "idle" THEN <<>> ELSE mrRun.mergeRestructureFiles)

\* C15: a merge-and-restructure called on a list of one file (grid valid)
\* is not rejected, and if that file is usable and has pages the call ends
\* with one download; it is rejected for its list only when the list is
\* empty.  A merge called on 0 or 1 files is rejected, on 2 or more it is not.
C15_MinimumInputs ==
    /\ mrRun.pc # "idle" =>
          LET files == mrRun.mergeRestructureFiles
          IN  /\ Len(files) = 0 => mrRun.pc = "rejected"
              /\ (Len(files) >= 1 /\ ~C10_BadGrid(mrRun)) => mrRun.pc # "rejected"
              /\ (/\ Len(files) = 1
                  /\ ~C10_BadGrid(mrRun)
                  /\ ~Unusable(files[1].file)
                  /\ PageCount(files[1].file) > 0
                  /\ Returned(mrRun)) =>
                    /\ mrRun.pc = "done"
                    /\ Len(mrRun.downloads) = 1
                    /\ mrRun.downloads[1].doc # <<>>
    /\ mergeRun.pc # "idle" =>
          (mergeRun.pc = "rejected" <=> Len(mergeRun.mergeFiles) \in {0, 1})

\* a merge-and-restructure of a single file has produced its output
C15_Witness ==
    /\ mrRun.pc = "done"
    /\ Len(mrRun.mergeRestructureFiles) = 1
    /\ Len(mrRun.downloads) = 1

\* the page sequence the call is to tile is empty: every input loads, none
\* has a page
NothingToTile(inputs) ==
    /\ inputs # <<>>
    /\ \A p \in 1..Len(inputs) : ~Unusable(inputs[p]) /\ PageCount(inputs[p]) = 0

C16_NoPages(run) ==
    /\ run.pc = "nopages"
    /\ run.newPdfDoc = <<>>
    /\ run.downloads = <<>>
    /\ run.toasts # <<>>
    /\ run.toasts[Len(run.toasts)].title = "Error"
    /\ run.toasts[Len(run.toasts)].variant = "destructive"

C16_Step ==
    /\ (NothingToTile(RestructureInputs)' /\ Returned(restructureRun)'
           /\ restructureRun.pc' # "rejected") => C16_NoPages(restructureRun)'
    /\ (NothingToTile(MRInputs)' /\ Returned(mrRun)' /\ mrRun.pc' # "rejected") =>
          C16_NoPages(mrRun)'
    /\ restructureRun.pc' = "nopages" => NothingToTile(RestructureInputs)'
    /\ mrRun.pc' = "nopages" => NothingToTile(MRInputs)'
    /\ ((InFlight(restructureRun) /\ restructureRun.pc' = "nopages")
           \/ (InFlight(mrRun) /\ mrRun.pc' = "nopages")) =>
          UNCHANGED <<mergeFiles, restructureFile, mergeRestructureFiles>>

\* C16: a restructure of a document without pages, and a merge-and-
\* restructure whose files have no page between them, returns with an error
\* toast, with no sheet added to the new document and no download, and the
\* step in which it returns leaves the file selections as they were.
C16_ZeroPagesRejected == [][C16_Step]_vars

\* a merge-and-restructure of two empty documents has returned; the list
\* still holds both
C16_Witness ==
    /\ mrRun.pc = "nopages"
    /\ Len(mrRun.mergeRestructureFiles) = 2
    /\ mergeRestructureFiles = mrRun.mergeRestructureFiles
    /\ mrRun.downloads = <<>>

\* the 1-based position of the entry with the given id
PositionOf(list, id) == CHOOSE k \in 1..Len(list) : list[k].id = id

\* list2 is list with the item of 0-based index a moved to 0-based index b:
\* the same entries, each once, the moved one at b, the others in the order
\* they had
Moved(list, a, b, list2) ==
    /\ Len(list2) = Len(list)
    /\ \A k \in 1..Len(list) : \E m \in 1..Len(list2) : list2[m] = list[k]
    /\ Cardinality(Ids(list2)) = Len(list2)
    /\ list2[b + 1] = list[a + 1]
    /\ \A k, m \in (1..Len(list)) \ {a + 1} :
          k < m => PositionOf(list2, list[k].id) < PositionOf(list2, list[m].id)

\* the entries are in the order in which they were selected
InsertionOrder(list) == \A k, m \in 1..Len(list) : k < m => list[k].id < list[m].id

C17_Step ==
    /\ \A b \in ItemIndices(mergeFiles) :
          (draggedMergeItemIndex \in ItemIndices(mergeFiles) /\ handleMergeDrop(b)) =>
              Moved(mergeFiles, draggedMergeItemIndex, b, mergeFiles')
    /\ \A b \in ItemIndices(mergeRestructureFiles) :
          (draggedMRItemIndex \in ItemIndices(mergeRestructureFiles) /\ handleMRDrop(b)) =>
              Moved(mergeRestructureFiles, draggedMRItemIndex, b, mergeRestructureFiles')
    /\ (InsertionOrder(mergeFiles) /\ ~ \E b \in ItemIndices(mergeFiles) : handleMergeDrop(b))
          => InsertionOrder(mergeFiles')
    /\ (InsertionOrder(mergeRestructureFiles)
           /\ ~ \E b \in ItemIndices(mergeRestructureFiles) : handleMRDrop(b))
          => InsertionOrder(mergeRestructureFiles')

\* C17: a drop on the item of index b while the dragged index a is an index
\* of the list leaves the same entries, each once, with the entry that was
\* at a now at b and the other entries in their former order; a step that
\* is not a drop keeps a list that is in insertion order in insertion order.
C17_DropIsAMove == [][C17_Step]_vars

\* three entries, the first dragged to the end
C17_Witness ==
    /\ Len(mergeFiles) = 3
    /\ [k \in 1..3 |-> mergeFiles[k].id] = <<2, 3, 1>>
    /\ draggedMergeItemIndex = NoIndex

C18_GridInRange ==
    /\ rows \in 1..8
    /\ cols \in 1..8
    /\ restructureMode \in {"horizontal", "vertical"}
    /\ restructureRun.pc # "idle" =>
          /\ restructureRun.rows * restructureRun.cols >= 1
          /\ restructureRun.pc # "rejected"
    /\ mrRun.pc # "idle" =>
          /\ mrRun.rows * mrRun.cols >= 1
          /\ mrRun.pc # "rejected"

\* C18: the grid starts as 2 rows, 2 columns, horizontal, and in every
\* reachable state rows and cols are in 1..8 and the orientation is
\* horizontal or vertical; every tiling operation that was triggered was
\* triggered with rows*cols >= 1 and was not rejected.
C18_GridAlwaysValid ==
    /\ rows = 2 /\ cols = 2 /\ restructureMode = "horizontal"
    /\ []C18_GridInRange

\* a restructure triggered on the largest grid, vertical
C18_Witness ==
    /\ restructureRun.pc = "done"
    /\ restructureRun.rows = 8
    /\ restructureRun.cols = 8
    /\ restructureRun.restructureMode = "vertical"

\* done of total as a percentage, scaled to the span `from`..`to`
Percent(done, total, from, to) == RAdd(R(from), Rat(done * (to - from), total))

InRange(x, lo, hi) == RLe(R(lo), x) /\ RLe(x, R(hi))

C19_Merge ==
    /\ InFlight(mergeRun) =>
          progressMerge = Percent(mergeRun.i, Len(mergeRun.mergeFiles), 0, 100)
    /\ InRange(progressMerge, 0, 100)

C19_Restructure ==
    /\ restructureRun.pc = "loop" =>
          progressRestructure =
              Percent(Min2(restructureRun.i, Len(restructureRun.pages)),
                      Len(restructureRun.pages), 0, 100)
    /\ restructureRun.pc = "load" => progressRestructure = R(0)
    /\ InRange(progressRestructure, 0, 100)

C19_MergeAndRestructure ==
    /\ mrRun.pc = "merge" =>
          /\ progressMergeRestructure =
                Percent(mrRun.i, Len(mrRun.mergeRestructureFiles), 0, 50)
          /\ mrRun.i > 0 => /\ RLt(R(0), progressMergeRestructure)
                            /\ RLe(progressMergeRestructure, R(50))
    /\ mrRun.pc = "tile" =>
          /\ progressMergeRestructure =
                Percent(Min2(mrRun.i, Len(mrRun.mergedPdfDoc)), Len(mrRun.mergedPdfDoc),
                        50, 100)
          /\ mrRun.i > 0 => /\ RLt(R(50), progressMergeRestructure)
                            /\ RLe(progressMergeRestructure, R(100))
          /\ progressMergeRestructure = R(100) <=> mrRun.i >= Len(mrRun.mergedPdfDoc)
    /\ InRange(progressMergeRestructure, 0, 100)

\* what a step that touches an operation (its call record or its progress)
\* leaves behind
C19_Step ==
    /\ <<mergeRun, progressMerge>>' # <<mergeRun, progressMerge>> =>
          /\ C19_Merge'
          /\ (InFlight(mergeRun) /\ InFlight(mergeRun')) =>
                RLe(progressMerge, progressMerge')
    /\ <<restructureRun, progressRestructure>>' # <<restructureRun, progressRestructure>> =>
          /\ C19_Restructure'
          /\ (InFlight(restructureRun) /\ InFlight(restructureRun')) =>
                RLe(progressRestructure, progressRestructure')
    /\ <<mrRun, progressMergeRestructure>>' # <<mrRun, progressMergeRestructure>> =>
          /\ C19_MergeAndRestructure'
          /\ (InFlight(mrRun) /\ InFlight(mrRun')) =>
                RLe(progressMergeRestructure, progressMergeRestructure')

\* C19: from the start of an operation to the step in which it returns its
\* progress never decreases and is within 0..100; merge shows files
\* copied / files, restructure pages placed / pages, merge-and-restructure
\* files copied / files scaled to (0, 50] and then 50 + pages placed / pages
\* scaled to (50, 100], 100 exactly once the last chunk is placed.
C19_ProgressMonotone == [][C19_Step]_vars

\* a merge-and-restructure in its tiling phase, progress strictly between
\* 50 and 100
C19_Witness ==
    /\ mrRun.pc = "tile"
    /\ RLt(R(50), progressMergeRestructure)
    /\ RLt(progressMergeRestructure, R(100))

C20_Downloads(run, filename) ==
    /\ run.pc = "done" =>
          /\ Len(run.downloads) = 1
          /\ run.downloads[1].filename = filename
    /\ (run.pc # "idle" /\ run.pc # "done") => run.downloads = <<>>

\* C20: a call that has completed has made exactly one download, named
\* merged_document.pdf (merge), restructured_ followed by the name of the
\* file it worked on (restructure) or merged_restructured_document.pdf
\* (merge-and-restructure); a call that is in flight, was rejected or has
\* failed has made none.
C20_OneNamedDownload ==
    /\ C20_Downloads(mergeRun, <<"merged_document.pdf">>)
    /\ C20_Downloads(restructureRun,
           IF restructureRun.pc = "done"
           THEN <<"restructured_", restructureRun.restructureFile[1].name>>
           ELSE <<>>)
    /\ C20_Downloads(mrRun, <<"merged_restructured_document.pdf">>)

\* two.pdf restructured and downloaded as restructured_two.pdf
C20_Witness ==
    /\ restructureRun.pc = "done"
    /\ restructureRun.downloads = <<[filename |-> <<"restructured_", "two.pdf">>,
                                     doc |-> restructureRun.newPdfDoc]>>

(***************************************************************************)
(* Further properties of the tiling loop (SpecTile).                       *)
(***************************************************************************)
\* the number of drawPage calls on the sheets made so far
RECURSIVE DrawCount(_)
DrawCount(n) == IF n = 0 THEN 0 ELSE DrawCount(n - 1) + Len(tSheets[n].draws)

\* C21: when the loop is over, the page at 0-based position i of the input
\* is the draw number i mod (rows*cols) of sheet floor(i/(rows*cols)), and
\* there are as many draws as pages: every page is drawn once, the chunks
\* are consecutive, disjoint and in order.
C21_EveryPageOnce ==
    tPc = "done" =>
        LET k == tRows * tCols
        IN  /\ DrawCount(Len(tSheets)) = Len(tPages)
            /\ \A i \in 0..(Len(tPages) - 1) :
                  /\ (i \div k) + 1 <= Len(tSheets)
                  /\ (i % k) + 1 <= Len(tSheets[(i \div k) + 1].draws)
                  /\ tSheets[(i \div k) + 1].draws[(i % k) + 1].page = tPages[i + 1]

\* five pages on sheets of two: three sheets, the last with one page
C21_Witness ==
    /\ tPc = "done"
    /\ Len(tPages) = 5
    /\ tRows * tCols = 2
    /\ Len(tSheets) = 3
    /\ tSheets[3].draws[1].page = tPages[5]

\* the first page of the chunk drawn on sheet number s (1-based)
FirstOfChunk(s) == tPages[(s - 1) * tRows * tCols + 1]

\* C22: every sheet has the width and height of the first page of its
\* chunk; every page of the chunk, whatever its own size, is fitted into a
\* tile of that width / cols by that height / rows.
C22_SheetIsFirstPage ==
    \A s \in 1..Len(tSheets) :
        LET sh == tSheets[s]
            tw == Rat(FirstOfChunk(s).width, tCols)
            th == Rat(FirstOfChunk(s).height, tRows)
        IN  /\ sh.width = FirstOfChunk(s).width
            /\ sh.height = FirstOfChunk(s).height
            /\ \A j1 \in 1..Len(sh.draws) :
                  LET d == sh.draws[j1]
                  IN  /\ d.width = RMin(tw, RDiv(RMul(th, R(d.page.width)), R(d.page.height)))
                      /\ d.height = RMin(th, RDiv(RMul(tw, R(d.page.height)), R(d.page.width)))

\* a sheet whose second page has another size than its first
C22_Witness ==
    \E s \in 1..Len(tSheets) :
        /\ Len(tSheets[s].draws) >= 2
        /\ tSheets[s].draws[2].page.width # tSheets[s].draws[1].page.width
        /\ tSheets[s].draws[2].page.height # tSheets[s].draws[1].page.height
        /\ tSheets[s].width = tSheets[s].draws[1].page.width

(***************************************************************************)
(* Further properties of the operations.                                   *)
(***************************************************************************)
\* C23: a merge-and-restructure that has completed has made
\* ceil((p1 + ... + pn) / (rows*cols)) sheets, and page k of the p-th file
\* is the draw at position (pages of the files before p) + k - 1 of the one
\* sequence of draws: chunks run on across file boundaries.
C23_TilesMergedSequence ==
    mrRun.pc = "done" =>
        LET files == mrRun.mergeRestructureFiles
            per == mrRun.rows * mrRun.cols
            total == PagesBefore(files, Len(files))
        IN  /\ Len(mrRun.newPdfDoc) = Ceil(total, per)
            /\ mrRun.downloads[1].doc = mrRun.newPdfDoc
            /\ \A p \in 1..Len(files) : \A k \in 1..PageCount(files[p].file) :
                  LET pos == PagesBefore(files, p - 1) + k - 1
                      d == mrRun.newPdfDoc[(pos \div per) + 1].draws[(pos % per) + 1]
                  IN  d.page.doc = files[p].id /\ d.page.idx = k

\* a sheet holding the last page of one file and the first of the next
C23_Witness ==
    /\ mrRun.pc = "done"
    /\ \E s \in 1..Len(mrRun.newPdfDoc) :
          LET draws == mrRun.newPdfDoc[s].draws
          IN  /\ Len(draws) >= 2
              /\ draws[1].page.doc # draws[2].page.doc
              /\ draws[1].page.idx = 2
              /\ draws[2].page.idx = 1

C24_AtRest(run, processing, progress) ==
    ~InFlight(run) => (~processing /\ progress = R(0))

\* C24: an operation that is in flight eventually has returned; and
\* whenever an operation is not in flight (never started, rejected,
\* completed, failed, no pages) its processing flag is false and its
\* progress is 0.
C24_OperationsEnd ==
    /\ [](/\ C24_AtRest(mergeRun, processingMerge, progressMerge)
          /\ C24_AtRest(restructureRun, processingRestructure, progressRestructure)
          /\ C24_AtRest(mrRun, processingMergeRestructure, progressMergeRestructure))
    /\ (InFlight(mergeRun) \/ InFlight(restructureRun) \/ InFlight(mrRun))
          ~> ~(InFlight(mergeRun) \/ InFlight(restructureRun) \/ InFlight(mrRun))

\* a merge-and-restructure that went through both loops and is at rest
C24_Witness ==
    /\ mrRun.pc = "done"
    /\ Len(mrRun.loads) = 2
    /\ Len(mrRun.newPdfDoc) >= 2
    /\ ~processingMergeRestructure
    /\ progressMergeRestructure = R(0)

\* a step in which the handler of an operation is called
Starts(run, run2) == runs' = runs + 1 /\ run2 # run

\* C25: a trigger is disabled while its own operation is in flight, and while
\* its list is too short (merge: fewer than 2 files; restructure: no file;
\* merge-and-restructure: empty list); so a handler is only ever called with
\* no instance of its operation in flight and with a list long enough.
C25_TriggerDisabled ==
    /\ [](/\ (InFlight(mergeRun) \/ Len(mergeFiles) < 2) => mergeDisabled
          /\ (InFlight(restructureRun) \/ restructureFile = <<>>) => restructureDisabled
          /\ (InFlight(mrRun) \/ Len(mergeRestructureFiles) < 1) => mrDisabled)
    /\ [][/\ Starts(mergeRun, mergeRun') =>
                ~InFlight(mergeRun) /\ Len(mergeFiles) >= 2
          /\ Starts(restructureRun, restructureRun') =>
                ~InFlight(restructureRun) /\ restructureFile # <<>>
          /\ Starts(mrRun, mrRun') =>
                ~InFlight(mrRun) /\ Len(mergeRestructureFiles) >= 1]_vars

\* a merge is in flight on the merge tab with two files still listed, and an
\* earlier merge has ended before it
C25_Witness ==
    /\ activeTab = "merge" /\ InFlight(mergeRun) /\ Len(mergeFiles) >= 2
    /\ runs = 2 /\ mergeDisabled

\* the spellings of the words the classification looks for
EncryptedWords == {"encrypted", "Encrypted", "ENCRYPTED"}
CorruptedWords == {"invalid pdf structure", "Invalid PDF structure", "INVALID PDF STRUCTURE",
                   "expected", "Expected", "EXPECTED", "offset", "Offset", "OFFSET"}
Mentions(message, words) == \E k \in 1..Len(message) : message[k] \in words

\* the description of the toast a failed call ended on, for the file whose
\* load threw
C26_Classified(run, files, encryptedText, corruptedText) ==
    (run.pc = "failed" /\ load(files[Len(run.loads)].file).throws) =>
        LET message == load(files[Len(run.loads)].file).message
            shown == run.toasts[Len(run.toasts)].description
        IN  IF Mentions(message, EncryptedWords)
            THEN shown = encryptedText
            ELSE IF Mentions(message, CorruptedWords)
            THEN shown = corruptedText
            ELSE shown = message

\* C26: when PDFDocument.load throws, the message is looked at without regard
\* to letter case: if it mentions "encrypted" the encrypted error of the
\* operation is reported, also when it mentions a word of the second group;
\* otherwise if it mentions "invalid pdf structure", "expected" or "offset"
\* the not-a-valid-PDF error naming the file is reported; otherwise the
\* message of the load error itself is reported.
C26_LoadErrorClassified ==
    /\ C26_Classified(mergeRun,
           IF mergeRun.pc = "idle" THEN <<>> ELSE mergeRun.mergeFiles,
           <<"One or more PDFs are encrypted and cannot be merged.">>,
           <<"File \"", mergeRun.mergeFiles[Len(mergeRun.loads)].name,
             "\" is not a valid PDF or is corrupted.">>)
    /\ C26_Classified(restructureRun,
           IF restructureRun.pc = "idle" THEN <<>> ELSE restructureRun.restructureFile,
           <<"The PDF is encrypted and cannot be restructured.">>,
           <<"The file \"", restructureRun.restructureFile[1].name,
             "\" is not a valid PDF or is corrupted.">>)
    /\ C26_Classified(mrRun,
           IF mrRun.pc = "idle" THEN <<>> ELSE mrRun.mergeRestructureFiles,
           <<"File \"", mrRun.mergeRestructureFiles[Len(mrRun.loads)].name,
             "\" is encrypted and cannot be processed.">>,
           <<"File \"", mrRun.mergeRestructureFiles[Len(mrRun.loads)].name,
             "\" is not a valid PDF or is corrupted.">>)

\* a restructure failed on the file whose message mentions words of both
\* groups, and reported it as encrypted
C26_Witness ==
    /\ restructureRun.pc = "failed"
    /\ restructureRun.restructureFile[1].file = "mixed.pdf"
    /\ Mentions(load("mixed.pdf").message, EncryptedWords)
    /\ Mentions(load("mixed.pdf").message, CorruptedWords)
    /\ restructureRun.toasts[Len(restructureRun.toasts)].description =
          <<"The PDF is encrypted and cannot be restructured.">>

\* the pages of the first n files of a list, in list order
RECURSIVE Merged(_, _)
Merged(files, n) ==
    IF n = 0 THEN <<>>
    ELSE Merged(files, n - 1) \o getPages(files[n].id, load(files[n].file))

\* what a call reads of the component's state when it starts
C27_Reads(run, run2, list, field) ==
    (Starts(run, run2) /\ InFlight(run2)) => run2[field] = list
C27_Keeps(run, run2, field) ==
    (InFlight(run) /\ ~Starts(run, run2)) => run2[field] = run[field]

C27_Step ==
    /\ C27_Reads(mergeRun, mergeRun', mergeFiles, "mergeFiles")
    /\ C27_Keeps(mergeRun, mergeRun', "mergeFiles")
    /\ C27_Reads(mrRun, mrRun', mergeRestructureFiles, "mergeRestructureFiles")
    /\ C27_Reads(mrRun, mrRun', rows, "rows")
    /\ C27_Reads(mrRun, mrRun', cols, "cols")
    /\ C27_Reads(mrRun, mrRun', restructureMode, "restructureMode")
    /\ C27_Keeps(mrRun, mrRun', "mergeRestructureFiles")
    /\ C27_Keeps(mrRun, mrRun', "rows")
    /\ C27_Keeps(mrRun, mrRun', "cols")
    /\ C27_Keeps(mrRun, mrRun', "restructureMode")

\* the output made so far is the output for the list, grid and orientation
\* of the call
C27_Output ==
    /\ mergeRun.pc \in {"loop", "done"} =>
          mergeRun.mergedPdf = Merged(mergeRun.mergeFiles, Len(mergeRun.loads))
    /\ mergeRun.pc = "done" =>
          /\ Len(mergeRun.loads) = Len(mergeRun.mergeFiles)
          /\ mergeRun.downloads[1].doc = mergeRun.mergedPdf
    /\ mrRun.pc \in {"tile", "done"} =>
          LET files == mrRun.mergeRestructureFiles
              pages == Merged(files, Len(files))
              per == mrRun.rows * mrRun.cols
          IN  /\ mrRun.mergedPdfDoc = pages
              /\ \A n \in 1..Len(mrRun.newPdfDoc) :
                    mrRun.newPdfDoc[n] =
                       newPage(pages, (n - 1) * per, mrRun.rows, mrRun.cols,
                               mrRun.restructureMode)
              /\ mrRun.pc = "done" =>
                    /\ Len(mrRun.newPdfDoc) = Ceil(Len(pages), per)
                    /\ mrRun.downloads[1].doc = mrRun.newPdfDoc

\* C27: a call of handleMerge or handleMergeAndRestructure takes the list,
\* rows, cols and orientation of the state it is called in and keeps them
\* until it returns, whatever the list, the grid and the orientation become
\* meanwhile; its pages and sheets are those of the values it took, in their
\* order and placement.
C27_WorksOnSnapshot == []C27_Output /\ [][C27_Step]_vars

\* all sheets of a merge-and-restructure are made while the list was
\* reordered and the grid and the orientation were changed after the click
C27_Witness ==
    /\ mrRun.pc = "tile"
    /\ mrRun.i >= Len(mrRun.mergedPdfDoc)
    /\ Len(mrRun.mergeRestructureFiles) = 2
    /\ Len(mergeRestructureFiles) = 2
    /\ mergeRestructureFiles[1] = mrRun.mergeRestructureFiles[2]
    /\ mergeRestructureFiles[2] = mrRun.mergeRestructureFiles[1]
    /\ mergeRestructureFiles[1].file # mergeRestructureFiles[2].file
    /\ <<rows, cols>> # <<mrRun.rows, mrRun.cols>>
    /\ restructureMode # mrRun.restructureMode

C28_RealFiles(list) ==
    /\ \A k \in 1..Len(list) :
          /\ list[k] # undefined
          /\ list[k].file \in Files
          /\ list[k].id \in 1..nextId
    /\ \A k1, k2 \in 1..Len(list) : list[k1].id = list[k2].id => k1 = k2

\* C28: in every reachable state each entry of the merge list and of the
\* merge-and-restructure list is a file the user selected, with an id handed
\* out at its selection, no entry is undefined and no id is in a list twice.
C28_ListsHoldRealFiles ==
    /\ C28_RealFiles(mergeFiles)
    /\ C28_RealFiles(mergeRestructureFiles)

\* what a document of sheets looks like: the size of each sheet and, for
\* each page drawn on it, which page of its file it is and where it is put
Geometry(doc) ==
    [n \in 1..Len(doc) |->
        [width |-> doc[n].width, height |-> doc[n].height,
         draws |-> [j \in 1..Len(doc[n].draws) |->
                      [idx |-> doc[n].draws[j].page.idx,
                       x |-> doc[n].draws[j].x, y |-> doc[n].draws[j].y,
                       width |-> doc[n].draws[j].width,
                       height |-> doc[n].draws[j].height]]]]

C29_SameInput ==
    /\ restructureRun.pc = "done"
    /\ mrRun.pc = "done"
    /\ Len(mrRun.mergeRestructureFiles) = 1
    /\ mrRun.mergeRestructureFiles[1].file = restructureRun.restructureFile[1].file
    /\ mrRun.rows = restructureRun.rows
    /\ mrRun.cols = restructureRun.cols
    /\ mrRun.restructureMode = restructureRun.restructureMode

C30_Origin(sh, d) == <<originX(d, SheetTileW(sh)), originY(d, SheetTileH(sh))>>

\* C30: on every sheet, the pages at two different positions of the chunk
\* have different tile origins (x, y), for every grid of the selector and
\* both orientations.
C30_DistinctTiles ==
    \A s \in 1..Len(tSheets) :
        \A j1, j2 \in 1..Len(tSheets[s].draws) :
            j1 # j2 => C30_Origin(tSheets[s], tSheets[s].draws[j1])
                         # C30_Origin(tSheets[s], tSheets[s].draws[j2])

\* a full sheet of 8 x 8 tiles filled top-to-bottom
C30_Witness ==
    /\ tPc = "done"
    /\ tRows = 8 /\ tCols = 8 /\ tMode = "vertical"
    /\ Len(tSheets) = 1
    /\ Len(tSheets[1].draws) = 64

====
